---- MODULE Spec2Model ----
(***************************************************************************)
(* Chunk streaming and edit coordination of webvoxel-rpg-optimized.        *)
(*                                                                         *)
(* Two coordinators are modelled, each with its own specification:         *)
(*   SpecCM   ChunkManager          (src/src/game/world/ChunkManager.ts)   *)
(*   SpecOCM  OptimizedChunkManager (src/unnamed/part_009)                 *)
(* together with the terrain worker they talk to                           *)
(* (src/public/workers/optimized-terrain-worker.js).                       *)
(***************************************************************************)
EXTENDS Integers, Sequences, FiniteSets, TLC

(***************************************************************************)
(* Sizes.  The source values are given in the comments; the model runs     *)
(* the same code on a scaled-down world.                                   *)
(***************************************************************************)
\* chunk edge length S (16 in both managers)
CHUNK_SIZE == 3
\* ChunkManager.RENDER_DISTANCE (6 in the source), Chebyshev, in chunks
RENDER_DISTANCE == 0
\* ChunkManager.MAX_WORKERS (min(3, hardwareConcurrency || 2) in the source)
MAX_WORKERS == 2
\* radius of triggerInitialChunkLoad (the literal 3 in the source)
INITIAL_LOAD_RADIUS == 0
\* most requests one ChunkManager worker may have outstanding
MaxInbox == 2
\* most worker errors in one run of ChunkManager
MaxErrors == 1
MaxBlocks == 1

\* the extra distance beyond RENDER_DISTANCE at which a record is evicted
EVICTION_MARGIN == 2

(***************************************************************************)
(* Helpers shared by both managers.                                        *)
(***************************************************************************)
\* JavaScript's % operator: the result takes the sign of the dividend.
JsRem(a, n) == IF a >= 0 THEN a % n ELSE -((-a) % n)

Abs(a) == IF a >= 0 THEN a ELSE -a

Max(a, b) == IF a >= b THEN a ELSE b

\* Math.floor(p / CHUNK_SIZE)
ChunkCoord(p) == p \div CHUNK_SIZE

Last(s) == s[Len(s)]

\* BlockType
AIR == 0
GRASS == 1
DIRT == 2
STONE == 3
WATER == 4

Front(s) == SubSeq(s, 1, Len(s) - 1)

(***************************************************************************)
(* ChunkManager                                                            *)
(***************************************************************************)
VARIABLES
  chunks,          \* Map<string, ChunkData>: key -> record, or NoChunk
  chunkPool,       \* THREE.Mesh[]: pooled meshes (mesh ids)
  scene,           \* chunk meshes that are children of the scene
  blocks,          \* positions of the placed block meshes that are children of the scene
  workers,         \* workers.length
  inbox,           \* per worker index: requests posted and not yet answered
  loadingChunks,   \* Set<string>
  isDisposed,
  initPc,          \* position of the async initializeWorkers
  restartTimers,   \* pending setTimeout callbacks of handleWorkerError
  errorCount,      \* worker errors so far
  cmEvent          \* the handler that ran last, with its arguments

cmVars == <<chunks, chunkPool, scene, blocks, workers, inbox, loadingChunks,
            isDisposed, initPc, restartTimers, errorCount, cmEvent>>

\* ---- state of OptimizedChunkManager (src/unnamed/part_009) ----
VARIABLES
  optChunks,         \* Map<string, ChunkData>: key -> chunk object, 0 when absent
  optObjs,           \* the ChunkData objects
  availableWorkers,  \* Worker[] used as a stack
  optInbox,          \* per worker: requests posted and not yet answered
  waiters,           \* pending 10 ms timers of getAvailableWorker, oldest first
  optDisposed,       \* isDisposed
  issued,            \* per key: number of `generate` requests issued so far
  optHist,           \* per chunk object: the voxel content implied by its
                     \* generate reply and the edits since, and the number of
                     \* the request whose reply was installed last
  optCalls,          \* number of placeBlock/removeBlock calls that wrote a voxel
  optErrors,         \* worker errors so far
  optLog             \* the placeBlock/removeBlock call the last step ran, or NoCall

optVars == <<optChunks, optObjs, availableWorkers, optInbox, waiters,
             optDisposed, issued, optHist, optCalls, optErrors, optLog>>

\* ---- state of one terrain worker, seen from inside the worker ----
VARIABLES
  wkScript,        \* the script the worker runs, "none" before it is started
  wkInitialized,   \* isInitialized of chunk.worker.ts
  wkSeed,          \* the seed noise2D of chunk.worker.ts was made from
  wkClosed,        \* self.close() has run
  wkReceived,      \* the messages handled so far, in order (type and key)
  wkPosted         \* the messages posted so far, in order

wkVars == <<wkScript, wkInitialized, wkSeed, wkClosed, wkReceived, wkPosted>>

\* ---- one call of a function of the meshing code ----
VARIABLES
  called           \* the function applied, its arguments and what it returned

fnVars == <<called>>

vars == <<cmVars, optVars, wkVars, fnVars>>

\* the viewer stands in chunk -1 or in a chunk far enough away to evict it
FarX == RENDER_DISTANCE + EVICTION_MARGIN + 1

PlayerPositions == {<<-1, 0>>, <<FarX * CHUNK_SIZE + 1, 0>>}

KeyReach == Max(RENDER_DISTANCE, INITIAL_LOAD_RADIUS)

Keys == ((-1 - KeyReach)..(FarX + KeyReach)) \X ((-KeyReach)..KeyReach)

NoChunk == [isGenerated |-> FALSE, isVisible |-> FALSE, mesh |-> -1]

NoMesh == 0

Resident(k) == chunks[k] # NoChunk

WorkerIds == 0..(MAX_WORKERS - 1)

\* the keys of a square loop "for x = -r..r, for z = -r..r" around (cx, cz)
LoopKeys(cx, cz, r) ==
  [i \in 1..((2 * r + 1) * (2 * r + 1)) |->
     <<cx - r + ((i - 1) \div (2 * r + 1)), cz - r + ((i - 1) % (2 * r + 1))>>]

GenerateMsg(k) == [type |-> "generate", key |-> k]

\* "(chunkX + chunkZ) % this.workers.length"
workerIndexFor(k, nWorkers) == JsRem(k[1] + k[2], nWorkers)

\* requestChunkGeneration, on the pair st = [loading, inbox]
requestChunkGeneration(st, k, disposed, nWorkers) ==
  IF disposed \/ nWorkers = 0 THEN st
  ELSE IF k \in st.loading THEN st
  ELSE LET workerIndex == workerIndexFor(k, nWorkers) IN
       IF workerIndex \in 0..(nWorkers - 1)
       THEN [loading |-> st.loading \cup {k},
             inbox |-> [st.inbox EXCEPT ![workerIndex] = Append(@, GenerateMsg(k))]]
       \* workers[workerIndex] is undefined: worker.postMessage throws a
       \* TypeError inside the try, and the catch deletes the key again
       ELSE st

\* the loop of updateChunks, on st = [chunks, loading, inbox]
RECURSIVE LoadLoop(_, _, _)
LoadLoop(st, ks, i) ==
  IF i > Len(ks) THEN st
  ELSE LET k == ks[i] IN
       IF st.chunks[k] = NoChunk /\ k \notin st.loading
       THEN LET rq == requestChunkGeneration(
                        [loading |-> st.loading, inbox |-> st.inbox],
                        k, isDisposed, workers) IN
            LoadLoop([chunks |-> [st.chunks EXCEPT ![k] =
                                    [isGenerated |-> FALSE, isVisible |-> FALSE,
                                     mesh |-> NoMesh]],
                      loading |-> rq.loading, inbox |-> rq.inbox], ks, i + 1)
       ELSE LoadLoop(st, ks, i + 1)

\* the loop of triggerInitialChunkLoad, on st = [loading, inbox]
RECURSIVE RequestLoop(_, _, _)
RequestLoop(st, ks, i) ==
  IF i > Len(ks) THEN st
  ELSE RequestLoop(requestChunkGeneration(st, ks[i], isDisposed, workers), ks, i + 1)

Distance(k, pcx, pcz) == Max(Abs(k[1] - pcx), Abs(k[2] - pcz))

\* eviction right at the render distance (mutation of chunksToRemove)
chunksBeyondRenderDistance(ch, pcx, pcz) ==
  {k \in Keys : ch[k] # NoChunk /\ Distance(k, pcx, pcz) > RENDER_DISTANCE}

\* the records cleanupDistantChunks removes
chunksToRemove(ch, pcx, pcz) ==
  {k \in Keys : ch[k] # NoChunk
                /\ Distance(k, pcx, pcz) > RENDER_DISTANCE + EVICTION_MARGIN}

\* keys in a fixed order (the Map's iteration order is not kept in the model;
\* it only decides which pooled mesh object is reused first)
RECURSIVE KeySeq(_)
KeySeq(S) ==
  IF S = {} THEN <<>>
  ELSE LET k == CHOOSE a \in S :
                  \A b \in S : a[1] < b[1] \/ (a[1] = b[1] /\ a[2] <= b[2])
       IN <<k>> \o KeySeq(S \ {k})

RECURSIVE MeshesOf(_, _)
MeshesOf(ch, ks) ==
  IF ks = <<>> THEN <<>>
  ELSE (IF ch[ks[1]].mesh # NoMesh THEN <<ch[ks[1]].mesh>> ELSE <<>>)
       \o MeshesOf(ch, Tail(ks))

SeqRange(s) == {s[i] : i \in 1..Len(s)}

\* a mesh object that exists nowhere yet ("new THREE.Mesh")
NewMesh(ch, pool) ==
  CHOOSE n \in 1..(Cardinality(Keys) + 1) :
    LET used == {ch[k].mesh : k \in Keys} \cup SeqRange(pool) IN
      n \notin used /\ \A m \in 1..(n - 1) : m \in used

\* cmEvent distinguishes updateChunks, whose argument it keeps, from the rest
Ev(op) == [op |-> "other", pcx |-> 0, pcz |-> 0]

cmInit ==
  /\ chunks = [k \in Keys |-> NoChunk]
  /\ chunkPool = <<>>
  /\ scene = {}
  /\ blocks = {}
  /\ workers = 1          \* the constructor runs initializeWorkers up to its first await
  /\ inbox = [w \in WorkerIds |-> <<>>]
  /\ loadingChunks = {}
  /\ isDisposed = FALSE
  /\ initPc = 1
  /\ restartTimers = <<>>
  /\ errorCount = 0
  /\ cmEvent = Ev("constructor")

\* initializeWorkers resumes after "await setTimeout(100)"
InitializeWorkers ==
  /\ initPc \in 1..MAX_WORKERS
  /\ IF initPc = MAX_WORKERS
     THEN \* the loop is over: setTimeout(triggerInitialChunkLoad, 500)
          /\ initPc' = MAX_WORKERS + 1
          /\ UNCHANGED workers
     ELSE IF isDisposed
     THEN \* createEnhancedWorker returns null for every remaining index
          /\ initPc' = MAX_WORKERS + 1
          /\ UNCHANGED workers
     ELSE /\ workers' = workers + 1
          /\ initPc' = initPc + 1
  /\ cmEvent' = Ev("initializeWorkers")
  /\ UNCHANGED <<chunks, chunkPool, scene, inbox, loadingChunks, isDisposed,
                 restartTimers, errorCount>>
  /\ UNCHANGED blocks
  /\ UNCHANGED <<optVars, wkVars, fnVars>>

\* the 500 ms timer of initializeWorkers fires
triggerInitialChunkLoad ==
  /\ initPc = MAX_WORKERS + 1
  /\ initPc' = MAX_WORKERS + 2
  /\ IF ~isDisposed /\ workers > 0
     THEN LET st == RequestLoop([loading |-> loadingChunks, inbox |-> inbox],
                                LoopKeys(0, 0, INITIAL_LOAD_RADIUS), 1) IN
          /\ \A w \in WorkerIds : Len(st.inbox[w]) <= MaxInbox
          /\ loadingChunks' = st.loading
          /\ inbox' = st.inbox
     ELSE UNCHANGED <<loadingChunks, inbox>>
  /\ cmEvent' = Ev("triggerInitialChunkLoad")
  /\ UNCHANGED <<chunks, chunkPool, scene, workers, isDisposed, restartTimers,
                 errorCount>>
  /\ UNCHANGED blocks
  /\ UNCHANGED <<optVars, wkVars, fnVars>>

updateChunks(p) ==
  LET playerChunkX == ChunkCoord(p[1])
      playerChunkZ == ChunkCoord(p[2])
  IN
  /\ cmEvent' = [op |-> "updateChunks", pcx |-> playerChunkX, pcz |-> playerChunkZ]
  /\ IF isDisposed
     THEN UNCHANGED <<chunks, chunkPool, scene, inbox, loadingChunks>>
     ELSE LET st == LoadLoop([chunks |-> chunks, loading |-> loadingChunks,
                              inbox |-> inbox],
                             LoopKeys(playerChunkX, playerChunkZ, RENDER_DISTANCE), 1)
              \* cleanupDistantChunks
              gone == chunksToRemove(st.chunks, playerChunkX, playerChunkZ)
              pooled == MeshesOf(st.chunks, KeySeq(gone))
          IN
          /\ \A w \in WorkerIds : Len(st.inbox[w]) <= MaxInbox
          /\ chunks' = [k \in Keys |-> IF k \in gone THEN NoChunk ELSE st.chunks[k]]
          /\ chunkPool' = chunkPool \o pooled
          /\ scene' = scene \ SeqRange(pooled)
          /\ loadingChunks' = st.loading \ gone
          /\ inbox' = st.inbox
  /\ UNCHANGED <<workers, isDisposed, initPc, restartTimers, errorCount>>
  /\ UNCHANGED blocks
  /\ UNCHANGED <<optVars, wkVars, fnVars>>

\* a createEnhancedMesh that reads the last pooled mesh and leaves it in the
\* pool (mutation of createEnhancedMesh)
createEnhancedMeshKeepingPooled(ch, pool) ==
  IF Len(pool) > 0 THEN <<Last(pool), pool>>
  ELSE <<NewMesh(ch, pool), pool>>

\* createEnhancedMesh: <<mesh, pool afterwards>>
createEnhancedMesh(ch, pool) ==
  IF Len(pool) > 0 THEN <<Last(pool), Front(pool)>>
  ELSE <<NewMesh(ch, pool), pool>>

\* a handler that installs the reply whether or not the manager is disposed
\* (mutation of handleEnhancedChunkGenerated)
handleEnhancedChunkGeneratedWhenDisposed(w) ==
  /\ inbox[w] # <<>>
  /\ inbox' = [inbox EXCEPT ![w] = Tail(@)]
  /\ cmEvent' = Ev("chunkGenerated")
  /\ LET k == Head(inbox[w]).key
         chunk == IF Resident(k) THEN chunks[k]
                  ELSE [isGenerated |-> FALSE, isVisible |-> TRUE,
                        mesh |-> NoMesh]
         made == createEnhancedMesh(chunks, chunkPool)
         mesh == IF chunk.mesh = NoMesh THEN made[1] ELSE chunk.mesh
     IN
     /\ loadingChunks' = loadingChunks \ {k}
     /\ chunkPool' = IF chunk.mesh = NoMesh THEN made[2] ELSE chunkPool
     /\ scene' = scene \cup {mesh}
     /\ chunks' = [chunks EXCEPT ![k] =
                     [isGenerated |-> TRUE, isVisible |-> TRUE, mesh |-> mesh]]
  /\ UNCHANGED <<workers, isDisposed, initPc, restartTimers, errorCount>>
  /\ UNCHANGED blocks
  /\ UNCHANGED <<optVars, wkVars, fnVars>>

\* worker w answers its oldest request with chunkGenerated
handleEnhancedChunkGenerated(w) ==
  /\ inbox[w] # <<>>
  /\ inbox' = [inbox EXCEPT ![w] = Tail(@)]
  /\ cmEvent' = Ev("chunkGenerated")
  /\ IF isDisposed
     THEN UNCHANGED <<chunks, chunkPool, scene, loadingChunks>>
     ELSE LET k == Head(inbox[w]).key
              chunk == IF Resident(k) THEN chunks[k]
                       ELSE [isGenerated |-> FALSE, isVisible |-> TRUE,
                             mesh |-> NoMesh]
              made == createEnhancedMesh(chunks, chunkPool)
              mesh == IF chunk.mesh = NoMesh THEN made[1] ELSE chunk.mesh
          IN
          /\ loadingChunks' = loadingChunks \ {k}
          /\ chunkPool' = IF chunk.mesh = NoMesh THEN made[2] ELSE chunkPool
          /\ scene' = scene \cup {mesh}
          /\ chunks' = [chunks EXCEPT ![k] =
                          [isGenerated |-> TRUE, isVisible |-> TRUE, mesh |-> mesh]]
  /\ UNCHANGED <<workers, isDisposed, initPc, restartTimers, errorCount>>
  /\ UNCHANGED blocks
  /\ UNCHANGED <<optVars, wkVars, fnVars>>

\* worker w fails on its oldest request: the 'error' message reaches
\* handleWorkerMessage, which calls handleWorkerError(w)
\* a handler that also forgets the records of the keys it releases (mutation
\* of handleWorkerError)
handleWorkerErrorDroppingRecords(w) ==
  /\ inbox[w] # <<>>
  /\ errorCount < MaxErrors
  /\ errorCount' = errorCount + 1
  /\ inbox' = [inbox EXCEPT ![w] = Tail(@)]
  /\ cmEvent' = Ev("workerError")
  /\ IF isDisposed
     THEN UNCHANGED <<loadingChunks, restartTimers, chunks>>
     ELSE /\ loadingChunks' =
               {k \in loadingChunks : workerIndexFor(k, workers) # w}
          /\ restartTimers' = Append(restartTimers, w)
          /\ chunks' = [k \in Keys |->
                          IF k \in loadingChunks /\ workerIndexFor(k, workers) = w
                          THEN NoChunk ELSE chunks[k]]
  /\ UNCHANGED <<chunkPool, scene, workers, isDisposed, initPc>>
  /\ UNCHANGED blocks
  /\ UNCHANGED <<optVars, wkVars, fnVars>>

handleWorkerError(w) ==
  /\ inbox[w] # <<>>
  /\ errorCount < MaxErrors
  /\ errorCount' = errorCount + 1
  /\ inbox' = [inbox EXCEPT ![w] = Tail(@)]
  /\ cmEvent' = Ev("workerError")
  /\ IF isDisposed
     THEN UNCHANGED <<loadingChunks, restartTimers>>
     ELSE /\ loadingChunks' =
               {k \in loadingChunks : workerIndexFor(k, workers) # w}
          /\ restartTimers' = Append(restartTimers, w)
  /\ UNCHANGED <<chunks, chunkPool, scene, workers, isDisposed, initPc>>
  /\ UNCHANGED blocks
  /\ UNCHANGED <<optVars, wkVars, fnVars>>

\* the 2000 ms timer of handleWorkerError fires
restartWorker ==
  /\ restartTimers # <<>>
  /\ restartTimers' = Tail(restartTimers)
  /\ cmEvent' = Ev("restartWorker")
  /\ LET w == Head(restartTimers) IN
     IF ~isDisposed /\ w < workers
     THEN \* terminate() discards the requests the old worker has not processed;
          \* replies it has already posted (a prefix of the queue) still arrive
          \E n \in 0..Len(inbox[w]) :
            inbox' = [inbox EXCEPT ![w] = SubSeq(@, 1, n)]
     ELSE UNCHANGED inbox
  /\ UNCHANGED <<chunks, chunkPool, scene, workers, loadingChunks, isDisposed,
                 initPc, errorCount>>
  /\ UNCHANGED blocks
  /\ UNCHANGED <<optVars, wkVars, fnVars>>

\* dispose(); each worker gets 'dispose' behind the requests it still has and
\* is terminated 100 ms later: the replies it posts before that still arrive,
\* the rest of its requests is discarded
dispose ==
  /\ cmEvent' = Ev("dispose")
  /\ IF isDisposed
     THEN UNCHANGED <<isDisposed, workers, inbox, chunks, chunkPool, scene,
                      loadingChunks>>
     ELSE /\ isDisposed' = TRUE
          /\ workers' = 0
          /\ \E n \in [WorkerIds -> 0..MaxInbox] :
               /\ \A w \in WorkerIds : n[w] <= Len(inbox[w])
               /\ inbox' = [w \in WorkerIds |-> SubSeq(inbox[w], 1, n[w])]
          /\ chunks' = [k \in Keys |-> NoChunk]
          /\ chunkPool' = <<>>
          /\ scene' = scene \ ({chunks[k].mesh : k \in Keys} \cup SeqRange(chunkPool))
          /\ loadingChunks' = {}
  /\ UNCHANGED <<initPc, restartTimers, errorCount>>
  /\ UNCHANGED blocks
  /\ UNCHANGED <<optVars, wkVars, fnVars>>

\* twice the position of a placed block's mesh ("mesh.position.y += 0.5") and
\* of the mesh of chunk k
BlockMeshPosition2(position) == <<2 * position[1], 2 * position[2] + 1, 2 * position[3]>>

ChunkMeshPosition2(k) == <<2 * k[1] * CHUNK_SIZE, 0, 2 * k[2] * CHUNK_SIZE>>

\* "object.position.distanceTo(position) < 1.5", on doubled coordinates
Near(object2, position) ==
  (object2[1] - 2 * position[1]) * (object2[1] - 2 * position[1])
  + (object2[2] - 2 * position[2]) * (object2[2] - 2 * position[2])
  + (object2[3] - 2 * position[3]) * (object2[3] - 2 * position[3]) < 9

\* the origin of chunk (-1,0) and a point next to the origin of chunk (0,0)
BlockSpots == {<<-CHUNK_SIZE, 0, 0>>, <<0, 0, 1>>}

\* placeBlock(position, blockType) of ChunkManager; the model keeps at most
\* MaxBlocks placed meshes, one per position
cmPlaceBlock(position, blockType) ==
  /\ cmEvent' = Ev("placeBlock")
  /\ IF isDisposed \/ blockType = AIR  \* AIR has no material
     THEN UNCHANGED blocks
     ELSE /\ Cardinality(blocks) < MaxBlocks
          /\ position \notin blocks
          /\ blocks' = blocks \cup {position}
  /\ UNCHANGED <<chunks, chunkPool, scene, workers, inbox, loadingChunks,
                 isDisposed, initPc, restartTimers, errorCount>>
  /\ UNCHANGED <<optVars, wkVars, fnVars>>

\* removeBlock(position) of ChunkManager: every mesh that is a child of the
\* scene and lies within 1.5 of the position is removed from the scene
cmRemoveBlock(position) ==
  /\ cmEvent' = Ev("removeBlock")
  /\ IF isDisposed
     THEN UNCHANGED <<blocks, scene>>
     ELSE /\ blocks' = {b \in blocks : ~Near(BlockMeshPosition2(b), position)}
          /\ scene' = scene \ {chunks[k].mesh : k \in
                                 {k \in Keys : /\ Resident(k)
                                               /\ Near(ChunkMeshPosition2(k), position)}}
  /\ UNCHANGED <<chunks, chunkPool, workers, inbox, loadingChunks,
                 isDisposed, initPc, restartTimers, errorCount>>
  /\ UNCHANGED <<optVars, wkVars, fnVars>>

cmNext ==
  \/ \E position \in BlockSpots, blockType \in {AIR, STONE} :
       cmPlaceBlock(position, blockType)
  \/ \E position \in BlockSpots : cmRemoveBlock(position)
  \/ InitializeWorkers
  \/ triggerInitialChunkLoad
  \/ \E p \in PlayerPositions : updateChunks(p)
  \/ \E w \in WorkerIds : handleEnhancedChunkGenerated(w)
  \/ \E w \in WorkerIds : handleWorkerError(w)
  \/ restartWorker
  \/ dispose


(***************************************************************************)
(* OptimizedChunkManager and the terrain worker                            *)
(***************************************************************************)
\* OptimizedChunkManager.WORLD_HEIGHT and the worker's WORLD_HEIGHT (32)
WORLD_HEIGHT == 2
\* OptimizedChunkManager.RENDER_DISTANCE (8 in the source), Euclidean
OPT_RENDER_DISTANCE == 0
\* OptimizedChunkManager.MAX_WORKERS (4 in the source)
OPT_MAX_WORKERS == 2
\* the worker's waterLevel (6 in the source)
WATER_LEVEL == 0
\* most chunk objects alive at once (resident, or still held by a waiting call)
MaxObjs == 3
\* most placeBlock/removeBlock calls in one run
MaxEdits == 2
\* most `generate` requests issued for one chunk key
MaxGen == 3
\* most worker errors (error replies and onerror events) in one run
MaxOptErrors == 1
\* most requests one OptimizedChunkManager worker may have outstanding
MaxOptInbox == 2

\* the extra distance beyond RENDER_DISTANCE at which unloadDistantChunks evicts
UNLOAD_MARGIN == 2

\* what reading a typed array outside its length yields (undefined)
Undef == -1

Pad == CHUNK_SIZE + 2

BufferLength == Pad * WORLD_HEIGHT * Pad

\* the viewer stands in chunk (0,0), in chunk (-1,0) or far away from both
OptFarX == OPT_RENDER_DISTANCE + UNLOAD_MARGIN + 1

OptPlayerPositions ==
  {<<0, 0>>, <<-1, 0>>, <<OptFarX * CHUNK_SIZE, 0>>}

\* the keys a player position can bring into the chunk map
OKeys ==
  UNION {SeqRange(LoopKeys(ChunkCoord(p[1]), ChunkCoord(p[2]), OPT_RENDER_DISTANCE)) :
           p \in OptPlayerPositions}

OWorkerIds == 1..OPT_MAX_WORKERS

ObjIds == 1..MaxObjs

NoBuf == [id |-> 0, data |-> <<>>]

NoFaces == [present |-> FALSE, faces |-> {}]

NoObj == [key |-> <<0, 0>>, voxels |-> NoBuf, isGenerated |-> FALSE,
          mesh |-> NoFaces, needsRemesh |-> FALSE, live |-> FALSE]

NoHist == [world |-> <<>>, src |-> 0]

\* ---- the terrain worker ------------------------------------------------
\* index of padded cell [x][y][z] in the serialized buffer
\* (serializeVoxelData / deserializeVoxelData: x outermost, then y, then z)
SerialIndex(x, y, z) == (x * WORLD_HEIGHT * Pad) + (y * Pad) + z

\* an index that takes z for the outermost loop
PaddedIndexZFirst(chunkSize, height, x, y, z) ==
  (z * height * (chunkSize + 2)) + (y * (chunkSize + 2)) + x

\* the same index for a chunk of edge chunkSize in a world `height` cells tall
PaddedIndex(chunkSize, height, x, y, z) ==
  (x * height * (chunkSize + 2)) + (y * (chunkSize + 2)) + z

Cell(data, i) == IF i >= 0 /\ i < Len(data) THEN data[i + 1] ELSE Undef

\* typed-array store: a store outside the length is ignored
WriteCell(data, i, v) ==
  IF i >= 0 /\ i < Len(data) THEN [data EXCEPT ![i + 1] = v] ELSE data

\* stands for Math.floor(heightNoise * 10) + 5 of the 'plains' biome
BaseHeight(worldX, worldZ) == (worldX + worldZ) % 2

\* generateOptimizedTerrain, step 2: the block at height y of a column of the
\* plains whose noise gives baseHeight
ColumnBlock(baseHeight, y) ==
  IF y <= baseHeight
  THEN (IF y < baseHeight - 2 THEN STONE
        ELSE IF y < baseHeight THEN DIRT ELSE GRASS)
  ELSE IF baseHeight < WATER_LEVEL /\ y <= WATER_LEVEL THEN WATER
  ELSE AIR

\* generateOptimizedTerrain, step 2: the block of padded cell [x][y][z]
TerrainBlock(chunkX, chunkZ, x, y, z) ==
  LET worldX == chunkX * CHUNK_SIZE + (x - 1)
      worldZ == chunkZ * CHUNK_SIZE + (z - 1)
      baseHeight == BaseHeight(worldX, worldZ)
  IN ColumnBlock(baseHeight, y)

\* serializeVoxelData of the terrain of chunk k
TerrainData(k) ==
  [n \in 1..BufferLength |->
     LET i == n - 1
         x == i \div (WORLD_HEIGHT * Pad)
         y == (i % (WORLD_HEIGHT * Pad)) \div Pad
         z == i % Pad
     IN TerrainBlock(k[1], k[2], x, y, z)]

Dirs == {"top", "bottom", "front", "back", "right", "left"}

\* hidden face culling of generateMeshFromVoxelData: the faces emitted for
\* the serialized buffer `data` (deserializeVoxelData reads data[index++])
FaceExposed(data, x, y, z, d) ==
  CASE d = "top"    -> y + 1 >= WORLD_HEIGHT \/ Cell(data, SerialIndex(x, y + 1, z)) = AIR
    [] d = "bottom" -> y - 1 < 0 \/ Cell(data, SerialIndex(x, y - 1, z)) = AIR
    [] d = "front"  -> Cell(data, SerialIndex(x, y, z - 1)) = AIR
    [] d = "back"   -> Cell(data, SerialIndex(x, y, z + 1)) = AIR
    [] d = "right"  -> Cell(data, SerialIndex(x + 1, y, z)) = AIR
    [] d = "left"   -> Cell(data, SerialIndex(x - 1, y, z)) = AIR

\* serializeVoxelData with z as the outermost loop
serializeVoxelDataZFirst(voxel3D, chunkSize, height) ==
  [n \in 1..((chunkSize + 2) * height * (chunkSize + 2)) |->
     LET z == (n - 1) \div (height * (chunkSize + 2))
         y == ((n - 1) % (height * (chunkSize + 2))) \div (chunkSize + 2)
         x == (n - 1) % (chunkSize + 2)
     IN voxel3D[x][y][z] % 256]

\* serializeVoxelData(voxel3D, chunkSize): "data[index++] = voxel3D[x][y][z]"
\* for x, then y, then z, into a Uint8Array, which keeps the low 8 bits
serializeVoxelData(voxel3D, chunkSize, height) ==
  [n \in 1..((chunkSize + 2) * height * (chunkSize + 2)) |->
     LET x == (n - 1) \div (height * (chunkSize + 2))
         y == ((n - 1) % (height * (chunkSize + 2))) \div (chunkSize + 2)
         z == (n - 1) % (chunkSize + 2)
     IN voxel3D[x][y][z] % 256]

\* deserializeVoxelData(data, chunkSize): "voxel3D[x][y][z] = data[index++]"
\* in the same loop order
deserializeVoxelData(data, chunkSize, height) ==
  [x \in 0..(chunkSize + 1) |->
     [y \in 0..(height - 1) |->
        [z \in 0..(chunkSize + 1) |->
           Cell(data, PaddedIndex(chunkSize, height, x, y, z))]]]

\* the six tests with the height range ignored
FaceExposedInsideOnly(data, chunkSize, height, x, y, z, d) ==
  CASE d = "top"    -> Cell(data, PaddedIndex(chunkSize, height, x, y + 1, z)) = AIR
    [] d = "bottom" -> Cell(data, PaddedIndex(chunkSize, height, x, y - 1, z)) = AIR
    [] d = "front"  -> Cell(data, PaddedIndex(chunkSize, height, x, y, z - 1)) = AIR
    [] d = "back"   -> Cell(data, PaddedIndex(chunkSize, height, x, y, z + 1)) = AIR
    [] d = "right"  -> Cell(data, PaddedIndex(chunkSize, height, x + 1, y, z)) = AIR
    [] d = "left"   -> Cell(data, PaddedIndex(chunkSize, height, x - 1, y, z)) = AIR

\* the six tests for a chunk of edge chunkSize in a world `height` cells tall
FaceExposedIn(data, chunkSize, height, x, y, z, d) ==
  CASE d = "top"    -> \/ y + 1 >= height
                       \/ Cell(data, PaddedIndex(chunkSize, height, x, y + 1, z)) = AIR
    [] d = "bottom" -> \/ y - 1 < 0
                       \/ Cell(data, PaddedIndex(chunkSize, height, x, y - 1, z)) = AIR
    [] d = "front"  -> Cell(data, PaddedIndex(chunkSize, height, x, y, z - 1)) = AIR
    [] d = "back"   -> Cell(data, PaddedIndex(chunkSize, height, x, y, z + 1)) = AIR
    [] d = "right"  -> Cell(data, PaddedIndex(chunkSize, height, x + 1, y, z)) = AIR
    [] d = "left"   -> Cell(data, PaddedIndex(chunkSize, height, x - 1, y, z)) = AIR

generateMeshFromVoxelData(data) ==
  {f \in (1..CHUNK_SIZE) \X (0..(WORLD_HEIGHT - 1)) \X (1..CHUNK_SIZE) \X Dirs :
     /\ Cell(data, SerialIndex(f[1], f[2], f[3])) # AIR
     /\ FaceExposed(data, f[1], f[2], f[3], f[4])}

MeshOf(data) == [present |-> TRUE, faces |-> generateMeshFromVoxelData(data)]

\* ---- the arrays of a mesh ----------------------------------------------
\* positions, normals, uvs, colors and indices as the workers fill them;
\* colour components are written in hundredths
EmptyMesh == [positions |-> <<>>, normals |-> <<>>, uvs |-> <<>>,
              colors |-> <<>>, indices |-> <<>>]

WOOD == 5
LEAVES == 6
SAND == 7

getBlockColor(blockType) ==
  CASE blockType = GRASS  -> <<30, 60, 20>>
    [] blockType = DIRT   -> <<40, 20, 10>>
    [] blockType = STONE  -> <<50, 50, 50>>
    [] blockType = WATER  -> <<20, 60, 100>>
    [] blockType = WOOD   -> <<55, 27, 7>>
    [] blockType = LEAVES -> <<13, 55, 13>>
    [] blockType = SAND   -> <<96, 64, 38>>
    [] OTHER              -> <<80, 80, 80>>

\* the body the six face emitters share: 4 vertices, 4 colours, 4 uvs,
\* the indices of 2 triangles and 4 normals
emitFace(m, vertices, normal, color, vertexIndex) ==
  [positions |-> m.positions \o vertices,
   colors    |-> m.colors \o color \o color \o color \o color,
   uvs       |-> m.uvs \o <<0, 0, 1, 0, 0, 1, 1, 1>>,
   indices   |-> m.indices \o <<vertexIndex, vertexIndex + 1, vertexIndex + 2,
                                vertexIndex, vertexIndex + 2, vertexIndex + 3>>,
   normals   |-> m.normals \o normal \o normal \o normal \o normal]

addTopFace(m, x, y, z, color, vertexIndex) ==
  emitFace(m, <<x, y + 1, z,  x + 1, y + 1, z,  x + 1, y + 1, z + 1,  x, y + 1, z + 1>>,
           <<0, 1, 0>>, color, vertexIndex)

addBottomFace(m, x, y, z, color, vertexIndex) ==
  emitFace(m, <<x, y, z,  x, y, z + 1,  x + 1, y, z + 1,  x + 1, y, z>>,
           <<0, -1, 0>>, color, vertexIndex)

addFrontFace(m, x, y, z, color, vertexIndex) ==
  emitFace(m, <<x, y, z,  x + 1, y, z,  x + 1, y + 1, z,  x, y + 1, z>>,
           <<0, 0, -1>>, color, vertexIndex)

addBackFace(m, x, y, z, color, vertexIndex) ==
  emitFace(m, <<x + 1, y, z + 1,  x, y, z + 1,  x, y + 1, z + 1,  x + 1, y + 1, z + 1>>,
           <<0, 0, 1>>, color, vertexIndex)

addRightFace(m, x, y, z, color, vertexIndex) ==
  emitFace(m, <<x + 1, y, z,  x + 1, y, z + 1,  x + 1, y + 1, z + 1,  x + 1, y + 1, z>>,
           <<1, 0, 0>>, color, vertexIndex)

addLeftFace(m, x, y, z, color, vertexIndex) ==
  emitFace(m, <<x, y, z + 1,  x, y, z,  x, y + 1, z,  x, y + 1, z + 1>>,
           <<-1, 0, 0>>, color, vertexIndex)

addFace(m, d, x, y, z, color, vertexIndex) ==
  CASE d = "top"    -> addTopFace(m, x, y, z, color, vertexIndex)
    [] d = "bottom" -> addBottomFace(m, x, y, z, color, vertexIndex)
    [] d = "front"  -> addFrontFace(m, x, y, z, color, vertexIndex)
    [] d = "back"   -> addBackFace(m, x, y, z, color, vertexIndex)
    [] d = "right"  -> addRightFace(m, x, y, z, color, vertexIndex)
    [] d = "left"   -> addLeftFace(m, x, y, z, color, vertexIndex)

\* concatenation of seqs[lo], ..., seqs[hi]
RECURSIVE Concat(_, _, _)
Concat(seqs, lo, hi) ==
  IF lo > hi THEN <<>>
  ELSE IF lo = hi THEN seqs[lo]
  ELSE LET mid == (lo + hi) \div 2
       IN Concat(seqs, lo, mid) \o Concat(seqs, mid + 1, hi)

\* the arrays after the pushes of parts[1], parts[2], ... in this order
Pushed(parts) ==
  LET n == Len(parts) IN
  [positions |-> Concat([i \in 1..n |-> parts[i].positions], 1, n),
   normals   |-> Concat([i \in 1..n |-> parts[i].normals], 1, n),
   uvs       |-> Concat([i \in 1..n |-> parts[i].uvs], 1, n),
   colors    |-> Concat([i \in 1..n |-> parts[i].colors], 1, n),
   indices   |-> Concat([i \in 1..n |-> parts[i].indices], 1, n)]

\* the meshing loop of the face-culling worker, "for x = 1..chunkSize, for
\* y = 0..WORLD_HEIGHT-1, for z = 1..chunkSize", then the six face tests in
\* source order: step n stands for cell (n - 1) \div 6 and face (n - 1) % 6
CullingSteps(chunkSize, height) ==
  [n \in 1..(chunkSize * height * chunkSize * 6) |->
     LET c == (n - 1) \div 6 IN
     [x |-> (c \div (height * chunkSize)) + 1,
      y |-> (c % (height * chunkSize)) \div chunkSize,
      z |-> (c % chunkSize) + 1,
      d |-> <<"top", "bottom", "front", "back", "right", "left">>[((n - 1) % 6) + 1]]]

\* the arrays generateMeshFromVoxelData and generateOptimizedTerrain return:
\* the i-th face that passes its test is emitted with vertexIndex 4 * (i - 1)
\* ("vertexIndex += 4" after every emitted face)
MeshArraysFor(data, chunkSize, height) ==
  LET emitted == SelectSeq(CullingSteps(chunkSize, height),
                   LAMBDA f : /\ Cell(data, PaddedIndex(chunkSize, height, f.x, f.y, f.z)) # AIR
                              /\ FaceExposedIn(data, chunkSize, height, f.x, f.y, f.z, f.d))
  IN Pushed([i \in 1..Len(emitted) |->
               LET f == emitted[i] IN
               addFace(EmptyMesh, f.d, f.x - 1, f.y, f.z - 1,
                       getBlockColor(Cell(data, PaddedIndex(chunkSize, height, f.x, f.y, f.z))),
                       4 * (i - 1))])

\* the same for the chunk size and world height of the coordinators
MeshArrays(data) == MeshArraysFor(data, CHUNK_SIZE, WORLD_HEIGHT)

\* step 3 of generateOptimizedTerrain: the six tests on the array
\* voxelData[x][y][z] that step 2 filled
TerrainFaceExposed(voxelData, height, x, y, z, d) ==
  CASE d = "top"    -> y + 1 >= height \/ voxelData[x][y + 1][z] = AIR
    [] d = "bottom" -> y - 1 < 0 \/ voxelData[x][y - 1][z] = AIR
    [] d = "front"  -> voxelData[x][y][z - 1] = AIR
    [] d = "back"   -> voxelData[x][y][z + 1] = AIR
    [] d = "right"  -> voxelData[x + 1][y][z] = AIR
    [] d = "left"   -> voxelData[x - 1][y][z] = AIR

\* step 3 of generateOptimizedTerrain: the arrays of the mesh it returns
\* beside serializeVoxelData(voxelData, chunkSize)
TerrainMeshArrays(voxelData, chunkSize, height) ==
  LET emitted == SelectSeq(CullingSteps(chunkSize, height),
                   LAMBDA f : /\ voxelData[f.x][f.y][f.z] # AIR
                              /\ TerrainFaceExposed(voxelData, height, f.x, f.y, f.z, f.d))
  IN Pushed([i \in 1..Len(emitted) |->
               LET f == emitted[i] IN
               addFace(EmptyMesh, f.d, f.x - 1, f.y, f.z - 1,
                       getBlockColor(voxelData[f.x][f.y][f.z]), 4 * (i - 1))])

\* the fill running over the chunk's own columns only, "for x = 0..chunkSize-1"
FlatTerrainDataUnpadded(chunkSize, height, baseHeight) ==
  [n \in 1..((chunkSize + 2) * height * (chunkSize + 2)) |->
     LET x == (n - 1) \div (height * (chunkSize + 2))
         z == (n - 1) % (chunkSize + 2)
     IN IF x = 0 \/ x = chunkSize + 1 \/ z = 0 \/ z = chunkSize + 1 THEN AIR
        ELSE ColumnBlock(baseHeight,
                         ((n - 1) % (height * (chunkSize + 2))) \div (chunkSize + 2))]

\* step 2 of generateOptimizedTerrain for a chunk of edge chunkSize in a
\* world `height` cells tall, where the noise gives every column of the
\* plains, padding included, the same baseHeight
FlatTerrainData(chunkSize, height, baseHeight) ==
  [n \in 1..((chunkSize + 2) * height * (chunkSize + 2)) |->
     ColumnBlock(baseHeight, ((n - 1) % (height * (chunkSize + 2))) \div (chunkSize + 2))]

\* ---- trees ---------------------------------------------------------------
\* stands for getBiome: the noise makes a forest of one part of the world;
\* the chunks the viewers of this model walk through lie in the plains
FOREST_FROM_CHUNK_Z == OPT_RENDER_DISTANCE + UNLOAD_MARGIN + 1

getBiome(worldX, worldZ) ==
  IF worldZ >= FOREST_FROM_CHUNK_Z * CHUNK_SIZE THEN "forest" ELSE "plains"

\* the columns whose "Math.random() < 0.06" may come out true in one run
TreeColumns == {<<0, 0>>, <<1, 0>>}

\* local column (x, z) of the chunk grows a tree in a run with rolls `trees`
HasTree(chunkX, chunkZ, x, z, trees) ==
  /\ getBiome(chunkX * CHUNK_SIZE + x, chunkZ * CHUNK_SIZE + z) = "forest"
  /\ x >= 0 /\ x < CHUNK_SIZE /\ z >= 0 /\ z < CHUNK_SIZE
  /\ <<x, z>> \in trees

\* generateOptimizedTerrain, step 2 with the trees of one run: padded cell
\* [x][y][z]
RolledBlock(chunkX, chunkZ, x, y, z, trees) ==
  LET baseHeight == BaseHeight(chunkX * CHUNK_SIZE + (x - 1),
                               chunkZ * CHUNK_SIZE + (z - 1))
      t == y - baseHeight
  IN IF HasTree(chunkX, chunkZ, x - 1, z - 1, trees) /\ t >= 1 /\ t <= 5
     THEN (IF t <= 3 THEN WOOD ELSE LEAVES)
     ELSE TerrainBlock(chunkX, chunkZ, x, y, z)

\* the serialized voxel data generateOptimizedTerrain returns in that run
RolledTerrainData(k, trees) ==
  [n \in 1..BufferLength |->
     LET i == n - 1
         x == i \div (WORLD_HEIGHT * Pad)
         y == (i % (WORLD_HEIGHT * Pad)) \div Pad
         z == i % Pad
     IN RolledBlock(k[1], k[2], x, y, z, trees)]

\* ---- the cube worker of ChunkManager ------------------------------------
CubeFaces ==
  << <<4, 5, 6, 4, 6, 7, 0, 1, 0>>,
     <<0, 3, 2, 0, 2, 1, 0, -1, 0>>,
     <<0, 1, 5, 0, 5, 4, 0, 0, -1>>,
     <<2, 3, 7, 2, 7, 6, 0, 0, 1>>,
     <<1, 2, 6, 1, 6, 5, 1, 0, 0>>,
     <<3, 0, 4, 3, 4, 7, -1, 0, 0>> >>

RECURSIVE Repeat(_, _)
Repeat(seq, n) == IF n = 0 THEN <<>> ELSE seq \o Repeat(seq, n - 1)

RECURSIVE CubeFaceLoop(_, _, _)
CubeFaceLoop(m, f, vertexIndex) ==
  IF f > Len(CubeFaces) THEN m
  ELSE LET c == CubeFaces[f] IN
       CubeFaceLoop(
         [m EXCEPT
            !.indices = @ \o <<vertexIndex + c[1], vertexIndex + c[2],
                               vertexIndex + c[3], vertexIndex + c[4],
                               vertexIndex + c[5], vertexIndex + c[6]>>,
            !.normals = @ \o Repeat(<<c[7], c[8], c[9]>>, 6)],
         f + 1, vertexIndex)

addCompleteCube(m, x, y, z, color, vertexIndex) ==
  CubeFaceLoop(
    [m EXCEPT
       !.positions = @ \o <<x, y, z,          x + 1, y, z,
                            x + 1, y, z + 1,  x, y, z + 1,
                            x, y + 1, z,      x + 1, y + 1, z,
                            x + 1, y + 1, z + 1,  x, y + 1, z + 1>>,
       !.colors = @ \o Repeat(color, 8),
       !.uvs = @ \o <<0, 0, 1, 0, 0, 0, 1, 0, 0, 1, 1, 1, 0, 1, 1, 1>>],
    1, vertexIndex)

\* the cubes generateEnhancedTerrain adds for local column (x, z), in source
\* order, each as <<y, colour>>: a rolled tree, the terrain column, the water
ColumnCubes(chunkX, chunkZ, x, z, trees) ==
  LET baseHeight == BaseHeight(chunkX * CHUNK_SIZE + x, chunkZ * CHUNK_SIZE + z)
      tree == IF HasTree(chunkX, chunkZ, x, z, trees)
              THEN [treeY \in 1..3 |-> <<baseHeight + treeY, <<55, 27, 7>> >>]
                   \o [leafY \in 1..2 |-> <<baseHeight + 3 + leafY, <<13, 55, 13>> >>]
              ELSE <<>>
      column == [n \in 1..(baseHeight + 1) |->
                   LET y == n - 1 IN
                   <<y, IF y < baseHeight - 2 THEN <<50, 50, 50>>
                        ELSE IF y < baseHeight THEN <<40, 20, 10>>
                        ELSE <<30, 60, 20>> >>]
      water == IF baseHeight < WATER_LEVEL
               THEN [n \in 1..(WATER_LEVEL - baseHeight) |->
                       <<baseHeight + n, <<20, 60, 100>> >>]
               ELSE <<>>
  IN tree \o column \o water

\* "for x = 0..chunkSize-1, for z = 0..chunkSize-1": column n is
\* ((n - 1) \div chunkSize, (n - 1) % chunkSize); the i-th cube is added with
\* vertexIndex 8 * (i - 1) ("vertexIndex += 8" after every cube)
generateEnhancedTerrain(k, trees) ==
  LET columns == [n \in 1..(CHUNK_SIZE * CHUNK_SIZE) |->
                    LET x == (n - 1) \div CHUNK_SIZE
                        z == (n - 1) % CHUNK_SIZE
                        cubes == ColumnCubes(k[1], k[2], x, z, trees)
                    IN [c \in 1..Len(cubes) |->
                          [x |-> x, y |-> cubes[c][1], z |-> z, color |-> cubes[c][2]]]]
      all == Concat(columns, 1, Len(columns))
  IN Pushed([i \in 1..Len(all) |->
               addCompleteCube(EmptyMesh, all[i].x, all[i].y, all[i].z,
                               all[i].color, 8 * (i - 1))])

\* ---- greedy meshing ------------------------------------------------------
\* vectors are functions on the axes 0..2
getVoxel(data, x, y, z, size) ==
  IF x < 0 \/ x >= size \/ y < 0 \/ y >= size \/ z < 0 \/ z >= size THEN 0
  ELSE Cell(data, x + y * size + z * size * size)

QuadPositions(x, du, dv) ==
  <<x[0], x[1], x[2],
    x[0] + du[0], x[1] + du[1], x[2] + du[2],
    x[0] + dv[0], x[1] + dv[1], x[2] + dv[2],
    x[0] + du[0] + dv[0], x[1] + du[1] + dv[1], x[2] + du[2] + dv[2]>>

\* addQuad with the cross product taken as dv x du
addQuadSwappedCross(positionsLength, x, du, dv, isPositive) ==
  LET startIndex == positionsLength \div 3
      normal == <<dv[1] * du[2] - dv[2] * du[1],
                  dv[2] * du[0] - dv[0] * du[2],
                  dv[0] * du[1] - dv[1] * du[0]>>
      stored == IF isPositive THEN normal
                ELSE <<-normal[1], -normal[2], -normal[3]>>
  IN [positions |-> QuadPositions(x, du, dv),
      normals   |-> Repeat(stored, 4),
      uvs       |-> <<0, 0, 1, 0, 0, 1, 1, 1>>,
      colors    |-> <<>>,
      indices   |-> IF isPositive
                    THEN <<startIndex, startIndex + 1, startIndex + 2,
                           startIndex + 1, startIndex + 3, startIndex + 2>>
                    ELSE <<startIndex, startIndex + 2, startIndex + 1,
                           startIndex + 1, startIndex + 2, startIndex + 3>>]

\* addQuad of the meshing module: what it pushes when positions holds
\* positionsLength numbers
addQuad(positionsLength, x, du, dv, isPositive) ==
  LET startIndex == positionsLength \div 3
      normal == <<du[1] * dv[2] - du[2] * dv[1],
                  du[2] * dv[0] - du[0] * dv[2],
                  du[0] * dv[1] - du[1] * dv[0]>>
      stored == IF isPositive THEN normal
                ELSE <<-normal[1], -normal[2], -normal[3]>>
  IN [positions |-> QuadPositions(x, du, dv),
      normals   |-> Repeat(stored, 4),
      uvs       |-> <<0, 0, 1, 0, 0, 1, 1, 1>>,
      colors    |-> <<>>,
      indices   |-> IF isPositive
                    THEN <<startIndex, startIndex + 1, startIndex + 2,
                           startIndex + 1, startIndex + 3, startIndex + 2>>
                    ELSE <<startIndex, startIndex + 2, startIndex + 1,
                           startIndex + 1, startIndex + 2, startIndex + 3>>]

\* addQuad of chunk.worker.ts
workerAddQuad(positionsLength, x, du, dv, isPositive) ==
  LET startIndex == positionsLength \div 3
      normal == IF isPositive THEN <<0, 1, 0>> ELSE <<0, -1, 0>>
  IN [positions |-> QuadPositions(x, du, dv),
      normals   |-> Repeat(normal, 4),
      uvs       |-> <<0, 0, 1, 0, 0, 1, 1, 1>>,
      colors    |-> <<>>,
      indices   |-> IF isPositive
                    THEN <<startIndex, startIndex + 2, startIndex + 1,
                           startIndex + 1, startIndex + 2, startIndex + 3>>
                    ELSE <<startIndex, startIndex + 1, startIndex + 2,
                           startIndex + 1, startIndex + 3, startIndex + 2>>]

\* the mask of the plane at x[d] = plane: cell n has x[u] = n % size and
\* x[v] = n \div size
MaskOf(data, size, d, plane) ==
  LET u == (d + 1) % 3
      v == (d + 2) % 3
  IN [n \in 0..(size * size - 1) |->
        LET x == [a \in 0..2 |-> IF a = d THEN plane
                                 ELSE IF a = u THEN n % size ELSE n \div size]
            q == [a \in 0..2 |-> IF a = d THEN 1 ELSE 0]
            blockA == IF plane >= 0 THEN getVoxel(data, x[0], x[1], x[2], size) ELSE 0
            blockB == IF plane < size - 1
                      THEN getVoxel(data, x[0] + q[0], x[1] + q[1], x[2] + q[2], size)
                      ELSE 0
        IN IF blockA # blockB THEN (IF blockA # 0 THEN blockA ELSE -blockB) ELSE 0]

\* the width loop leaving every quad one cell wide
GrowWidthNone(mask, size, n, i, w) == w

\* "for (w = 1; i + w < chunkSize && mask[n + w] === currentBlock; w++) {}"
RECURSIVE GrowWidth(_, _, _, _, _)
GrowWidth(mask, size, n, i, w) ==
  IF i + w < size /\ mask[n + w] = mask[n] THEN GrowWidth(mask, size, n, i, w + 1)
  ELSE w

\* a height loop that compares only the first cell of the next row
GrowHeightFirstCell(mask, size, n, j, w, h) ==
  IF j + h < size /\ mask[n + h * size] = mask[n] THEN h + 1 ELSE h

\* the loop over h, which stops at the first row that does not match
RECURSIVE GrowHeight(_, _, _, _, _, _)
GrowHeight(mask, size, n, j, w, h) ==
  IF j + h < size /\ \A k \in 0..(w - 1) : mask[n + k + h * size] = mask[n]
  THEN GrowHeight(mask, size, n, j, w, h + 1)
  ELSE h

\* the scan "for j, for i" of one plane, n = j * size + i throughout: the
\* quads it has addQuad append, in order
RECURSIVE ScanPlane(_, _, _, _, _, _)
ScanPlane(mask, size, d, xd, n, quads) ==
  IF n >= size * size THEN quads
  ELSE IF mask[n] = 0 THEN ScanPlane(mask, size, d, xd, n + 1, quads)
  ELSE LET u == (d + 1) % 3
           v == (d + 2) % 3
           i == n % size
           j == n \div size
           w == GrowWidth(mask, size, n, i, 1)
           h == GrowHeight(mask, size, n, j, w, 1)
           quad == [x  |-> [a \in 0..2 |-> IF a = d THEN xd
                                           ELSE IF a = u THEN i ELSE j],
                    du |-> [a \in 0..2 |-> IF a = u THEN w ELSE 0],
                    dv |-> [a \in 0..2 |-> IF a = v THEN h ELSE 0],
                    isPositive |-> mask[n] > 0]
           cleared == [c \in DOMAIN mask |->
                         IF (c % size) >= i /\ (c % size) < i + w
                            /\ (c \div size) >= j /\ (c \div size) < j + h
                         THEN 0 ELSE mask[c]]
       IN ScanPlane(cleared, size, d, xd, n + w, Append(quads, quad))

\* "for d = 0..2, for x[d] = -1..chunkSize-1": sweep s is axis (s - 1) \div
\* (size + 1) and plane ((s - 1) % (size + 1)) - 1; its quads lie at
\* x[d] = plane + 1
GreedyQuads(data, size) ==
  LET sweeps == [s \in 1..(3 * (size + 1)) |->
                   LET d == (s - 1) \div (size + 1)
                       plane == ((s - 1) % (size + 1)) - 1
                   IN ScanPlane(MaskOf(data, size, d, plane), size, d, plane + 1,
                                0, <<>>)]
  IN Concat(sweeps, 1, Len(sweeps))

\* the numbers positions holds before the i-th quad is appended
RECURSIVE PushedLength(_, _, _)
PushedLength(quads, lo, hi) ==
  IF lo > hi THEN 0
  ELSE IF lo = hi THEN Len(QuadPositions(quads[lo].x, quads[lo].du, quads[lo].dv))
  ELSE LET mid == (lo + hi) \div 2
       IN PushedLength(quads, lo, mid) + PushedLength(quads, mid + 1, hi)

WithoutColors(m) == [positions |-> m.positions, normals |-> m.normals,
                     uvs |-> m.uvs, indices |-> m.indices]

greedyMeshing(voxelData, chunkSize) ==
  LET quads == GreedyQuads(voxelData, chunkSize) IN
  WithoutColors(Pushed([i \in 1..Len(quads) |->
    addQuad(PushedLength(quads, 1, i - 1), quads[i].x, quads[i].du, quads[i].dv,
            quads[i].isPositive)]))

workerGreedyMeshing(voxelData, chunkSize) ==
  LET quads == GreedyQuads(voxelData, chunkSize) IN
  WithoutColors(Pushed([i \in 1..Len(quads) |->
    workerAddQuad(PushedLength(quads, 1, i - 1), quads[i].x, quads[i].du,
                  quads[i].dv, quads[i].isPositive)]))

\* ---- generateTerrain of chunk.worker.ts ---------------------------------
\* stands for Math.floor(height + 32) of the noise made from the seed
TerrainHeight(seed, worldX, worldZ) == (seed + worldX + worldZ) % 3

CW_WATER_BELOW == 16

generateTerrain(chunkX, chunkZ, chunkSize, seed) ==
  [n \in 1..(chunkSize * chunkSize * chunkSize) |->
     LET i == n - 1
         x == i % chunkSize
         y == (i \div chunkSize) % chunkSize
         z == i \div (chunkSize * chunkSize)
         terrainHeight == TerrainHeight(seed, chunkX * chunkSize + x,
                                        chunkZ * chunkSize + z)
     IN IF y < terrainHeight - 5 THEN STONE
        ELSE IF y < terrainHeight - 1 THEN DIRT
        ELSE IF y < terrainHeight THEN GRASS
        ELSE IF y < CW_WATER_BELOW THEN WATER
        ELSE AIR]


\* ---- the coordinator ---------------------------------------------------
\* a buffer object that exists nowhere yet ("new Uint8Array")
FreshBuf(objs, inbx) ==
  LET used == {objs[o].voxels.id : o \in ObjIds}
              \cup {inbx[w][j].voxelData.id :
                      <<w, j>> \in {q \in OWorkerIds \X (1..(MaxOptInbox + 4)) :
                                      q[2] <= Len(inbx[q[1]])}}
  IN CHOOSE n \in 1..(Cardinality(used) + 1) :
       n \notin used /\ \A m \in 1..(n - 1) : m \in used

\* the chunk record keeping the array it has just transferred
\* (regenerateChunkMesh without its last assignment)
KeepTransferred(v, fresh) == v

\* the length a typed array reports once its buffer has been transferred
DetachedLength == 0

\* "chunk.voxels = new Uint8Array(chunk.voxels.length)" after the transfer
VoxelsAfterTransfer(v, fresh) ==
  [id |-> fresh, data |-> [n \in 1..DetachedLength |-> AIR]]

NoCall == [op |-> "none", key |-> <<0, 0>>, idx |-> 0, lx |-> 0,
           lz |-> 0, bt |-> 0, status |-> "none", selfSent |-> FALSE,
           sentData |-> <<>>, sent |-> {}, gnbrs |-> {}, ready |-> FALSE,
           wasAir |-> FALSE, start |-> FALSE]

GenWaiter(k, t) == [kind |-> "gen", key |-> k, tag |-> t, obj |-> 0,
                    phase |-> "none", rest |-> <<>>, call |-> NoCall]

RegenWaiter(o, phase, rest, call) ==
  [kind |-> "regen", key |-> <<0, 0>>, tag |-> 0, obj |-> o,
   phase |-> phase, rest |-> rest, call |-> call]

\* regenerateChunkMesh after "await getAvailableWorker()" has yielded worker w:
\* st = [objs, avail, inbox, waiters, call]
PostRegenerate(st, o, w, phase) ==
  LET v == st.objs[o].voxels
      msg == [type |-> "regenerate", key |-> st.objs[o].key, tag |-> 0,
              voxelData |-> v]
      fresh == FreshBuf(st.objs, st.inbox)
  IN [st EXCEPT !.inbox[w] = Append(@, msg),
                !.objs[o].voxels = VoxelsAfterTransfer(v, fresh),
                !.call.sent = @ \cup {st.objs[o].key},
                !.call.selfSent = IF phase = "self" THEN TRUE ELSE @,
                !.call.sentData = IF phase = "self" THEN v.data ELSE @]

\* regenerateChunkMesh up to the point where it has posted or has to wait
regenerateChunkMesh(st, o, phase, rest) ==
  IF st.objs[o].needsRemesh THEN [st |-> st, wait |-> FALSE]
  ELSE LET s1 == [st EXCEPT !.objs[o].needsRemesh = TRUE] IN
       IF s1.avail = <<>>
       THEN [st |-> [s1 EXCEPT !.waiters =
                       Append(@, RegenWaiter(o, phase, rest, s1.call))],
             wait |-> TRUE]
       ELSE [st |-> PostRegenerate([s1 EXCEPT !.avail = Front(@)], o,
                                   Last(s1.avail), phase),
             wait |-> FALSE]

\* a neighbour test that asks for a chunk record only
NeighborPresent(chs, objs, k) == k \in OKeys /\ chs[k] # 0

\* the test updateNeighborChunksIfNeeded applies to a neighbour
NeighborReady(chs, objs, k) ==
  k \in OKeys /\ chs[k] # 0 /\ objs[chs[k]].isGenerated

\* updateNeighborChunksIfNeeded: the chunks to update, in the order left,
\* right, front, back
chunksToUpdate(chs, objs, chunkX, chunkZ, localX, localZ) ==
  LET pick(cond, k) == IF cond /\ NeighborReady(chs, objs, k)
                       THEN <<chs[k]>> ELSE <<>>
  IN pick(localX = 0, <<chunkX - 1, chunkZ>>)
     \o pick(localX = CHUNK_SIZE - 1, <<chunkX + 1, chunkZ>>)
     \o pick(localZ = 0, <<chunkX, chunkZ - 1>>)
     \o pick(localZ = CHUNK_SIZE - 1, <<chunkX, chunkZ + 1>>)

\* the loop "for (const neighborChunk of chunksToUpdate) await regenerate..."
\* and the return of placeBlock/removeBlock behind it
RECURSIVE NeighborLoop(_, _)
NeighborLoop(st, rest) ==
  IF rest = <<>> THEN [st EXCEPT !.call.status = "true"]
  ELSE LET r == regenerateChunkMesh(st, Head(rest), "nbr", Tail(rest)) IN
       IF r.wait THEN r.st ELSE NeighborLoop(r.st, Tail(rest))

\* placeBlock/removeBlock behind "await this.regenerateChunkMesh(chunk)"
AfterSelf(st, chs) ==
  LET c == st.call
      list == chunksToUpdate(chs, st.objs, c.key[1], c.key[2], c.lx, c.lz)
  IN NeighborLoop([st EXCEPT !.call.gnbrs = {st.objs[list[j]].key :
                                               j \in 1..Len(list)}], list)

\* placeBlock/removeBlock from the voxel write on
EditBody(st, o, chs) ==
  LET r == regenerateChunkMesh(st, o, "self", <<>>) IN
  IF r.wait THEN r.st ELSE AfterSelf(r.st, chs)

\* the call record of the waiting call, as logged
Pending(st) == IF st.call.status = "true" THEN st.call
               ELSE [st.call EXCEPT !.status = "pending"]

\* chunk objects nothing refers to any more are dropped
Referenced(chs, ws) ==
  {chs[k] : k \in OKeys}
  \cup {ws[j].obj : j \in 1..Len(ws)}
  \cup UNION {SeqRange(ws[j].rest) : j \in 1..Len(ws)}

Collect(objs, chs, ws) ==
  [o \in ObjIds |-> IF o \in Referenced(chs, ws) THEN objs[o] ELSE NoObj]

CollectHist(hist, chs, ws) ==
  [o \in ObjIds |-> IF o \in Referenced(chs, ws) THEN hist[o] ELSE NoHist]

optInit ==
  /\ optChunks = [k \in OKeys |-> 0]
  /\ optObjs = [o \in ObjIds |-> NoObj]
  /\ availableWorkers = [w \in OWorkerIds |-> w]
  /\ optInbox = [w \in OWorkerIds |-> <<>>]
  /\ waiters = <<>>
  /\ optDisposed = FALSE
  /\ issued = [k \in OKeys |-> 0]
  /\ optHist = [o \in ObjIds |-> NoHist]
  /\ optCalls = 0
  /\ optErrors = 0
  /\ optLog = NoCall


\* an edit test that asks for a chunk record only
AnyRecord(objs, o) == o # 0

\* the test "!chunk || !chunk.isGenerated || !chunk.voxels" of the edits
\* (chunk.voxels is always an object, so its test never fails)
EditReady(objs, o) == o # 0 /\ objs[o].isGenerated

\* voxelIndex of placeBlock/removeBlock
VoxelIndex(localX, localY, localZ) ==
  ((localX + 1) * WORLD_HEIGHT * Pad) + (localY * Pad) + (localZ + 1)

ValidLocal(localX, localY, localZ) ==
  ~(\/ localX < 0 \/ localX >= CHUNK_SIZE
    \/ localY < 0 \/ localY >= WORLD_HEIGHT
    \/ localZ < 0 \/ localZ >= CHUNK_SIZE)

\* world positions of the edits, both in chunk (0,0): a solid cell on the x = 0
\* boundary and an interior cell of the top layer that the terrain leaves AIR
EditPositions ==
  {<<0, 0, 1>>, <<1, WORLD_HEIGHT - 1, 1>>}

InboxBounded(inbx) == \A w \in OWorkerIds : Len(inbx[w]) <= MaxOptInbox

\* placeBlock (op = "place", writing blockType) and removeBlock (op = "remove")
EditCall(op, position, blockType) ==
  LET chunkX == ChunkCoord(position[1])
      chunkZ == ChunkCoord(position[3])
      key == <<chunkX, chunkZ>>
      o == IF key \in OKeys THEN optChunks[key] ELSE 0
      localX == position[1] - (chunkX * CHUNK_SIZE)
      localY == position[2]
      localZ == position[3] - (chunkZ * CHUNK_SIZE)
      valid == ValidLocal(localX, localY, localZ)
      voxelIndex == VoxelIndex(localX, localY, localZ)
      ready == EditReady(optObjs, o)
      value == IF op = "remove" THEN AIR ELSE blockType
      oldBlockType == Cell(optObjs[o].voxels.data, voxelIndex)
      \* the call as far as the chunk test, and behind it
      entered == [NoCall EXCEPT !.op = op, !.key = key, !.start = TRUE]
      call == [entered EXCEPT !.ready = TRUE, !.idx = voxelIndex,
                              !.lx = localX, !.lz = localZ, !.bt = value,
                              !.wasAir = valid /\ Cell(optHist[o].world, voxelIndex) = AIR]
  IN
  IF \/ optDisposed \/ ~ready \/ ~valid
     \/ (op = "remove" /\ oldBlockType = AIR)
     THEN /\ optLog' = [(IF optDisposed \/ ~ready THEN entered ELSE call)
                          EXCEPT !.status = "false"]
          /\ UNCHANGED <<optChunks, optObjs, availableWorkers, optInbox, waiters,
                         optDisposed, issued, optHist, optCalls, optErrors>>
     ELSE LET written == [optObjs EXCEPT ![o].voxels.data =
                                            WriteCell(@, voxelIndex, value)]
              res == EditBody([objs |-> written, avail |-> availableWorkers,
                               inbox |-> optInbox, waiters |-> waiters,
                               call |-> call], o, optChunks)
          IN /\ optCalls < MaxEdits
             /\ optCalls' = optCalls + 1
             /\ InboxBounded(res.inbox)
             /\ optObjs' = res.objs
             /\ availableWorkers' = res.avail
             /\ optInbox' = res.inbox
             /\ waiters' = res.waiters
             /\ optHist' = [optHist EXCEPT ![o].world = WriteCell(@, voxelIndex, value)]
             /\ optLog' = Pending(res)
             /\ UNCHANGED <<optChunks, optDisposed, issued, optErrors>>

placeBlock(position, blockType) ==
  EditCall("place", position, blockType) /\ UNCHANGED <<cmVars, wkVars, fnVars>>

removeBlock(position) ==
  EditCall("remove", position, AIR) /\ UNCHANGED <<cmVars, wkVars, fnVars>>

\* the 10 ms timer of the oldest waiting getAvailableWorker fires
getAvailableWorker ==
  /\ waiters # <<>>
  /\ LET h == Head(waiters) IN
     IF availableWorkers = <<>>
     THEN /\ waiters' = Append(Tail(waiters), h)
          /\ optLog' = NoCall
          /\ UNCHANGED <<optChunks, optObjs, availableWorkers, optInbox,
                         optDisposed, issued, optHist, optCalls, optErrors>>
     ELSE IF h.kind = "gen"
     THEN /\ waiters' = Tail(waiters)
          /\ availableWorkers' = Front(availableWorkers)
          /\ optInbox' = [optInbox EXCEPT ![Last(availableWorkers)] =
                            Append(@, [type |-> "generate", key |-> h.key,
                                       tag |-> h.tag, voxelData |-> NoBuf])]
          /\ InboxBounded(optInbox')
          /\ optLog' = NoCall
          /\ UNCHANGED <<optChunks, optObjs, optDisposed, issued, optHist,
                         optCalls, optErrors>>
     ELSE LET s1 == PostRegenerate([objs |-> optObjs,
                                    avail |-> Front(availableWorkers),
                                    inbox |-> optInbox,
                                    waiters |-> Tail(waiters),
                                    call |-> h.call],
                                   h.obj, Last(availableWorkers), h.phase)
              res == IF h.phase = "self" THEN AfterSelf(s1, optChunks)
                     ELSE NeighborLoop(s1, h.rest)
          IN /\ InboxBounded(res.inbox)
             /\ optObjs' = Collect(res.objs, optChunks, res.waiters)
             /\ optHist' = CollectHist(optHist, optChunks, res.waiters)
             /\ availableWorkers' = res.avail
             /\ optInbox' = res.inbox
             /\ waiters' = res.waiters
             /\ optLog' = [Pending(res) EXCEPT !.start = FALSE]
             /\ UNCHANGED <<optChunks, optDisposed, issued, optCalls, optErrors>>
  /\ UNCHANGED <<cmVars, wkVars, fnVars>>

\* generateChunk, on st = [chs, objs, avail, inbox, waiters, issued]
generateChunk(st, k) ==
  IF st.chs[k] # 0 THEN st
  ELSE LET o == CHOOSE a \in ObjIds :
                  ~st.objs[a].live /\ \A b \in 1..(a - 1) : st.objs[b].live
           chunk == [key |-> k,
                     voxels |-> [id |-> FreshBuf(st.objs, st.inbox), data |-> <<>>],
                     isGenerated |-> FALSE, mesh |-> NoFaces,
                     needsRemesh |-> FALSE, live |-> TRUE]
           tag == st.issued[k] + 1
           s1 == [st EXCEPT !.objs[o] = chunk, !.chs[k] = o, !.issued[k] = tag]
       IN IF s1.avail = <<>>
          THEN [s1 EXCEPT !.waiters = Append(@, GenWaiter(k, tag))]
          ELSE [s1 EXCEPT !.avail = Front(@),
                          !.inbox[Last(s1.avail)] =
                             Append(@, [type |-> "generate", key |-> k,
                                        tag |-> tag, voxelData |-> NoBuf])]

\* loadNearbyChunks: the keys with sqrt(x*x + z*z) <= RENDER_DISTANCE
Nearby(pcx, pcz) ==
  LET all == LoopKeys(pcx, pcz, OPT_RENDER_DISTANCE) IN
  {k \in SeqRange(all) :
     ((k[1] - pcx) * (k[1] - pcx)) + ((k[2] - pcz) * (k[2] - pcz))
       <= OPT_RENDER_DISTANCE * OPT_RENDER_DISTANCE}

RECURSIVE loadNearbyChunks(_, _)
loadNearbyChunks(st, ks) ==
  IF ks = <<>> THEN st
  ELSE loadNearbyChunks(generateChunk(st, Head(ks)), Tail(ks))

\* unloadDistantChunks: the keys it deletes
Distant(chs, pcx, pcz) ==
  {k \in OKeys :
     /\ chs[k] # 0
     /\ ((k[1] - pcx) * (k[1] - pcx)) + ((k[2] - pcz) * (k[2] - pcz))
          > (OPT_RENDER_DISTANCE + UNLOAD_MARGIN) * (OPT_RENDER_DISTANCE + UNLOAD_MARGIN)}

RECURSIVE SumOver(_, _)
SumOver(f, S) ==
  IF S = {} THEN 0
  ELSE LET k == CHOOSE a \in S : TRUE IN f[k] + SumOver(f, S \ {k})

\* the number of generate requests made so far
Requests(iss) == SumOver(iss, OKeys)

update(playerPosition) ==
  LET playerChunkX == ChunkCoord(playerPosition[1])
      playerChunkZ == ChunkCoord(playerPosition[2])
      near == Nearby(playerChunkX, playerChunkZ)
      new == {k \in near : optChunks[k] = 0}
      st == loadNearbyChunks([chs |-> optChunks, objs |-> optObjs,
                              avail |-> availableWorkers, inbox |-> optInbox,
                              waiters |-> waiters, issued |-> issued],
                             KeySeq(near))
      gone == Distant(st.chs, playerChunkX, playerChunkZ)
      kept == [k \in OKeys |-> IF k \in gone THEN 0 ELSE st.chs[k]]
  IN
  /\ ~optDisposed
  /\ Cardinality(new) <= Cardinality({o \in ObjIds : ~optObjs[o].live})
  /\ Requests(issued) + Cardinality(new) <= MaxGen
  /\ InboxBounded(st.inbox)
  /\ optChunks' = kept
  /\ optObjs' = Collect(st.objs, kept, st.waiters)
  /\ optHist' = CollectHist(optHist, kept, st.waiters)
  /\ availableWorkers' = st.avail
  /\ optInbox' = st.inbox
  /\ waiters' = st.waiters
  /\ issued' = st.issued
  /\ optLog' = NoCall
  /\ UNCHANGED <<optDisposed, optCalls, optErrors>>
  /\ UNCHANGED <<cmVars, wkVars, fnVars>>

releaseWorker(avail, w) == IF ~optDisposed THEN Append(avail, w) ELSE avail

\* worker w answers a `generate`; handleWorkerMessage runs
\* handleOptimizedChunkGenerated and releaseWorker
handleOptimizedChunkGenerated(w) ==
  /\ optInbox[w] # <<>>
  /\ Head(optInbox[w]).type = "generate"
  /\ LET m == Head(optInbox[w])
         o == optChunks[m.key]
         data == TerrainData(m.key)
         rest == [optInbox EXCEPT ![w] = Tail(@)]
     IN /\ optInbox' = rest
        /\ IF o = 0 \/ optDisposed
           THEN UNCHANGED <<optObjs, optHist>>
           ELSE /\ optObjs' = [optObjs EXCEPT
                                 ![o].voxels = [id |-> FreshBuf(optObjs, rest),
                                                data |-> data],
                                 ![o].mesh = MeshOf(data),
                                 ![o].isGenerated = TRUE,
                                 ![o].needsRemesh = FALSE]
                /\ optHist' = [optHist EXCEPT ![o] = [world |-> data, src |-> m.tag]]
  /\ availableWorkers' = releaseWorker(availableWorkers, w)
  /\ optLog' = NoCall
  /\ UNCHANGED <<optChunks, waiters, optDisposed, issued, optCalls, optErrors>>
  /\ UNCHANGED <<cmVars, wkVars, fnVars>>

\* worker w answers a `regenerate`; handleWorkerMessage runs
\* handleChunkRegenerated and releaseWorker
handleChunkRegenerated(w) ==
  /\ optInbox[w] # <<>>
  /\ Head(optInbox[w]).type = "regenerate"
  /\ LET m == Head(optInbox[w])
         o == optChunks[m.key]
     IN /\ optInbox' = [optInbox EXCEPT ![w] = Tail(@)]
        /\ IF o = 0 \/ optDisposed \/ ~optObjs[o].mesh.present
           THEN UNCHANGED optObjs
           ELSE optObjs' = [optObjs EXCEPT
                              ![o].mesh = MeshOf(m.voxelData.data),
                              ![o].needsRemesh = FALSE]
  /\ availableWorkers' = releaseWorker(availableWorkers, w)
  /\ optLog' = NoCall
  /\ UNCHANGED <<optChunks, waiters, optDisposed, issued, optHist, optCalls,
                 optErrors>>
  /\ UNCHANGED <<cmVars, wkVars, fnVars>>

\* worker w fails on its oldest request and posts `error`
handleWorkerMessageError(w) ==
  /\ optInbox[w] # <<>>
  /\ optErrors < MaxOptErrors
  /\ optErrors' = optErrors + 1
  /\ optInbox' = [optInbox EXCEPT ![w] = Tail(@)]
  /\ availableWorkers' = releaseWorker(availableWorkers, w)
  /\ optLog' = NoCall
  /\ UNCHANGED <<optChunks, optObjs, waiters, optDisposed, issued, optHist,
                 optCalls>>
  /\ UNCHANGED <<cmVars, wkVars, fnVars>>

\* worker.onerror fires for worker w (it may fire for an idle worker, too)
optHandleWorkerError(w) ==
  /\ ~optDisposed
  /\ optErrors < MaxOptErrors
  /\ optErrors' = optErrors + 1
  /\ availableWorkers' = releaseWorker(availableWorkers, w)
  /\ optLog' = NoCall
  /\ UNCHANGED <<optChunks, optObjs, optInbox, waiters, optDisposed, issued,
                 optHist, optCalls>>
  /\ UNCHANGED <<cmVars, wkVars, fnVars>>

optDispose ==
  /\ ~optDisposed
  /\ optDisposed' = TRUE
  /\ optChunks' = [k \in OKeys |-> 0]
  /\ optObjs' = Collect(optObjs, [k \in OKeys |-> 0], waiters)
  /\ optHist' = CollectHist(optHist, [k \in OKeys |-> 0], waiters)
  /\ optInbox' = [w \in OWorkerIds |-> <<>>]
  /\ availableWorkers' = <<>>
  /\ optLog' = NoCall
  /\ UNCHANGED <<waiters, issued, optCalls, optErrors>>
  /\ UNCHANGED <<cmVars, wkVars, fnVars>>

optNext ==
  \/ \E p \in OptPlayerPositions : update(p)
  \/ \E p \in EditPositions : placeBlock(p, GRASS)
  \/ \E p \in EditPositions : removeBlock(p)
  \/ getAvailableWorker
  \/ \E w \in OWorkerIds : handleOptimizedChunkGenerated(w)
  \/ \E w \in OWorkerIds : handleChunkRegenerated(w)
  \/ \E w \in OWorkerIds : handleWorkerMessageError(w)
  \/ \E w \in OWorkerIds : optHandleWorkerError(w)
  \/ optDispose

(***************************************************************************)
(* One terrain worker and its message handler                              *)
(***************************************************************************)
MaxRequests == 2
MaxSeed == 1

Scripts == {"optimized-terrain-worker.js", "ChunkManager inline worker",
            "chunk.worker.ts"}

\* a chunk of the plains and a chunk of the forest
WorkerKeys == {<<0, 0>>, <<0, FOREST_FROM_CHUNK_Z>>}

\* messages a coordinator can post: the coordinators of this repository send
\* chunkSize = CHUNK_SIZE; a regenerate carries the chunk's buffer, which is
\* the generated one or the empty array left by an earlier transfer, and a
\* message built without the field carries none
Request(type, k, seed, data, hasData) ==
  [type |-> type, chunkX |-> k[1], chunkZ |-> k[2], seed |-> seed,
   voxelData |-> data, hasVoxelData |-> hasData]

WorkerRequests ==
  {Request("init", <<0, 0>>, sd, <<>>, FALSE) : sd \in 0..MaxSeed}
  \cup {Request("generate", k, 0, <<>>, FALSE) : k \in WorkerKeys}
  \cup {Request("regenerate", <<0, 0>>, 0, d, TRUE) :
          d \in {TerrainData(<<0, 0>>), [n \in 1..DetachedLength |-> AIR]}}
  \cup {Request("regenerate", <<0, 0>>, 0, <<>>, FALSE),
        Request("dispose", <<0, 0>>, 0, <<>>, FALSE)}

\* a posted message: `has` names the properties it carries, req is the
\* position of the request whose handler posted it
Reply(type, q, has, mesh, data) ==
  [type |-> type, req |-> Len(wkReceived) + 1, chunkX |-> q.chunkX,
   chunkZ |-> q.chunkZ, has |-> has, meshData |-> mesh, voxelData |-> data,
   seed |-> wkSeed]

ErrorReply(q) == Reply("error", q, {"message"}, EmptyMesh, <<>>)

wkInit ==
  /\ wkScript = "none"
  /\ wkInitialized = FALSE
  /\ wkSeed = 0
  /\ wkClosed = FALSE
  /\ wkReceived = <<>>
  /\ wkPosted = <<>>

\* new Worker(...): the script starts
startWorker(script) ==
  /\ wkScript = "none"
  /\ wkScript' = script
  /\ UNCHANGED <<wkInitialized, wkSeed, wkClosed, wkReceived, wkPosted>>
  /\ UNCHANGED <<cmVars, optVars, fnVars>>

Handled(q) == Append(wkReceived, [type |-> q.type, chunkX |-> q.chunkX,
                                  chunkZ |-> q.chunkZ])

\* the message handler of public/workers/optimized-terrain-worker.js
optimizedWorkerOnMessage(q) ==
  /\ wkScript = "optimized-terrain-worker.js" /\ ~wkClosed
  /\ Len(wkReceived) < MaxRequests
  /\ wkReceived' = Handled(q)
  /\ wkClosed' = (q.type = "dispose")
  /\ \E trees \in SUBSET TreeColumns :
       wkPosted' =
         CASE q.type = "init" ->
                Append(wkPosted, Reply("initialized", q, {}, EmptyMesh, <<>>))
           [] q.type = "generate" ->
                LET data == RolledTerrainData(<<q.chunkX, q.chunkZ>>, trees) IN
                Append(wkPosted,
                       Reply("chunkGenerated", q,
                             {"chunkX", "chunkZ", "meshData", "voxelData"},
                             MeshArrays(data), data))
           [] q.type = "regenerate" ->
                IF q.hasVoxelData
                THEN Append(wkPosted,
                            Reply("chunkRegenerated", q,
                                  {"chunkX", "chunkZ", "meshData"},
                                  MeshArrays(q.voxelData), <<>>))
                ELSE \* "voxelData[index++]" of undefined throws
                     Append(wkPosted, ErrorReply(q))
           [] OTHER -> wkPosted
  /\ UNCHANGED <<wkScript, wkInitialized, wkSeed>>
  /\ UNCHANGED <<cmVars, optVars, fnVars>>

\* the message handler of the worker ChunkManager builds from a string
inlineWorkerOnMessage(q) ==
  /\ wkScript = "ChunkManager inline worker" /\ ~wkClosed
  /\ Len(wkReceived) < MaxRequests
  /\ wkReceived' = Handled(q)
  /\ wkClosed' = (q.type = "dispose")
  /\ \E trees \in SUBSET TreeColumns :
       wkPosted' =
         CASE q.type = "init" ->
                Append(wkPosted, Reply("initialized", q, {}, EmptyMesh, <<>>))
           [] q.type = "generate" ->
                Append(wkPosted,
                       Reply("chunkGenerated", q, {"chunkX", "chunkZ", "meshData"},
                             generateEnhancedTerrain(<<q.chunkX, q.chunkZ>>, trees),
                             <<>>))
           [] OTHER -> wkPosted
  /\ UNCHANGED <<wkScript, wkInitialized, wkSeed>>
  /\ UNCHANGED <<cmVars, optVars, fnVars>>

\* the message handler of src/chunk.worker.ts
chunkWorkerOnMessage(q) ==
  /\ wkScript = "chunk.worker.ts" /\ ~wkClosed
  /\ Len(wkReceived) < MaxRequests
  /\ wkReceived' = Handled(q)
  /\ IF q.type = "init"
     THEN /\ wkSeed' = q.seed
          /\ wkInitialized' = TRUE
          /\ wkPosted' = Append(wkPosted, [Reply("initialized", q, {}, EmptyMesh, <<>>)
                                             EXCEPT !.seed = q.seed])
     ELSE /\ UNCHANGED <<wkSeed, wkInitialized>>
          /\ wkPosted' =
               IF ~wkInitialized THEN Append(wkPosted, ErrorReply(q))
               ELSE IF q.type = "generate"
               THEN LET voxelData == generateTerrain(q.chunkX, q.chunkZ,
                                                     CHUNK_SIZE, wkSeed)
                        mesh == workerGreedyMeshing(voxelData, CHUNK_SIZE)
                    IN Append(wkPosted,
                              Reply("chunkGenerated", q,
                                    {"chunkX", "chunkZ", "meshData"},
                                    mesh, <<>>))
               ELSE wkPosted
  /\ UNCHANGED <<wkScript, wkClosed>>
  /\ UNCHANGED <<cmVars, optVars, fnVars>>

wkNext ==
  \/ \E script \in Scripts : startWorker(script)
  \/ \E q \in WorkerRequests : optimizedWorkerOnMessage(q)
  \/ \E q \in WorkerRequests : inlineWorkerOnMessage(q)
  \/ \E q \in WorkerRequests : chunkWorkerOnMessage(q)

(***************************************************************************)
(* The functions of the meshing code, applied one at a time                *)
(***************************************************************************)
MaxCoord == 2
MeshSize == 2
MeshHeight == 2
FlatSize == 4
FlatHeight == 4

NotCalled == [fn |-> "none"]

fnInit == called = NotCalled

\* one of the six face emitters appends a quad to a mesh that is empty or
\* holds one quad already; vertexIndex counts the vertices of the mesh, as
\* in the meshing loops
callAddFace ==
  /\ called = NotCalled
  /\ \E d \in Dirs, x \in 0..MaxCoord, y \in 0..MaxCoord, z \in 0..MaxCoord,
        v \in {0, 4} :
       called' =
         [fn |-> "addFace", d |-> d, x |-> x, y |-> y, z |-> z, vertexIndex |-> v,
          out |-> addFace(IF v = 0 THEN EmptyMesh
                          ELSE addTopFace(EmptyMesh, 0, 0, 0, getBlockColor(STONE), 0),
                          d, x, y, z, getBlockColor(GRASS), v)]
  /\ UNCHANGED <<cmVars, optVars, wkVars>>

\* the values of the cells of the buffers that are meshed
CellValues == {AIR, GRASS, STONE}

\* serialized buffers of a chunk of edge chunkSize in a world `height` cells
\* tall: all of one value except at up to two cells of the padded volume,
\* and the empty array a transfer leaves behind
PaddedBuffers(chunkSize, height) ==
  LET length == (chunkSize + 2) * height * (chunkSize + 2) IN
  {[n \in 1..length |-> IF n = a THEN s ELSE IF n = b THEN t ELSE rest] :
     a \in 1..length, b \in 1..length, s \in CellValues, t \in CellValues,
     rest \in {AIR, STONE}}
  \cup {[n \in 1..DetachedLength |-> AIR]}

\* generateMeshFromVoxelData(voxelData, chunkSize) of the face-culling worker
callGenerateMeshFromVoxelData ==
  /\ called = NotCalled
  /\ \E data \in PaddedBuffers(MeshSize, MeshHeight) :
       called' = [fn |-> "generateMeshFromVoxelData", voxelData |-> data,
                  chunkSize |-> MeshSize, height |-> MeshHeight,
                  out |-> MeshArraysFor(data, MeshSize, MeshHeight)]
  /\ UNCHANGED <<cmVars, optVars, wkVars>>

\* generateOptimizedTerrain(chunkX, chunkZ, chunkSize) over flat terrain: the
\* voxels are filled, meshed and serialized
callGenerateOptimizedTerrain ==
  /\ called = NotCalled
  /\ \E baseHeight \in 0..(FlatHeight - 1) :
       LET data == FlatTerrainData(FlatSize, FlatHeight, baseHeight) IN
       called' = [fn |-> "generateOptimizedTerrain", chunkX |-> 0, chunkZ |-> 0,
                  chunkSize |-> FlatSize, height |-> FlatHeight,
                  baseHeight |-> baseHeight, voxelData |-> data,
                  out |-> MeshArraysFor(data, FlatSize, FlatHeight)]
  /\ UNCHANGED <<cmVars, optVars, wkVars>>

\* voxel buffers of a chunk of edge `size` for the greedy mesher, cell
\* (x, y, z) at x + y * size + z * size * size: all of one value except at up
\* to two cells, a slab one voxel tall, or any shape of STONE within the
\* 2 x 2 x 2 cells at the origin
GreedyBuffers(size) ==
  LET length == size * size * size IN
  {[n \in 1..length |-> IF n = a THEN s ELSE IF n = b THEN t ELSE rest] :
     a \in 1..length, b \in 1..length, s \in CellValues, t \in CellValues,
     rest \in {AIR, STONE}}
  \cup {[n \in 1..length |-> IF ((n - 1) \div size) % size = y THEN t ELSE AIR] :
          y \in 0..(size - 1), t \in {GRASS, STONE}}
  \cup {[n \in 1..length |->
            IF <<(n - 1) % size, ((n - 1) \div size) % size, (n - 1) \div (size * size)>>
                 \in shape THEN STONE ELSE AIR] :
          shape \in SUBSET ({0, 1} \X {0, 1} \X {0, 1})}

\* greedyMeshing(voxelData, chunkSize) of the meshing module; `quads` lists
\* the calls of addQuad it makes
callGreedyMeshing ==
  /\ called = NotCalled
  /\ \E data \in GreedyBuffers(MeshSize) :
       called' = [fn |-> "greedyMeshing", voxelData |-> data, chunkSize |-> MeshSize,
                  quads |-> GreedyQuads(data, MeshSize),
                  out |-> greedyMeshing(data, MeshSize)]
  /\ UNCHANGED <<cmVars, optVars, wkVars>>

\* addQuad(positions, normals, uvs, indices, x, du, dv, isPositive) of the
\* meshing module, on empty arrays or on arrays that hold one quad
callAddQuad ==
  /\ called = NotCalled
  /\ \E du \in [0..2 -> (-1)..MaxCoord], dv \in [0..2 -> (-1)..MaxCoord],
        isPositive \in BOOLEAN, first \in BOOLEAN :
       LET x == IF first THEN [a \in 0..2 |-> 0] ELSE [a \in 0..2 |-> a + 1]
           before == IF first THEN EmptyMesh
                     ELSE addQuad(0, [a \in 0..2 |-> 0], [a \in 0..2 |-> 0],
                                  [a \in 0..2 |-> 0], TRUE)
       IN called' = [fn |-> "addQuad", x |-> x, du |-> du, dv |-> dv,
                     isPositive |-> isPositive,
                     out |-> Pushed(<<before,
                                      addQuad(Len(before.positions), x, du, dv,
                                              isPositive)>>)]
  /\ UNCHANGED <<cmVars, optVars, wkVars>>

\* the serialized buffer of the face-culling worker that holds the cells of
\* the cube `data` of the greedy mesher, with AIR in the padding: chunk edge
\* and world height are both `size`
PaddedFromCube(data, size) ==
  [n \in 1..((size + 2) * size * (size + 2)) |->
     LET x == (n - 1) \div (size * (size + 2))
         y == ((n - 1) % (size * (size + 2))) \div (size + 2)
         z == (n - 1) % (size + 2)
     IN IF x >= 1 /\ x <= size /\ z >= 1 /\ z <= size
        THEN data[(x - 1) + y * size + (z - 1) * size * size + 1]
        ELSE AIR]

\* the two meshers applied to the same voxels
callBothMeshers ==
  /\ called = NotCalled
  /\ \E data \in GreedyBuffers(MeshSize) :
       called' = [fn |-> "both meshers", voxelData |-> data, chunkSize |-> MeshSize,
                  culled |-> MeshArraysFor(PaddedFromCube(data, MeshSize),
                                           MeshSize, MeshSize),
                  greedy |-> greedyMeshing(data, MeshSize)]
  /\ UNCHANGED <<cmVars, optVars, wkVars>>

\* the block types of the terrain worker
COAL == 8
IRON == 9

BlockTypes == {AIR, GRASS, DIRT, STONE, WATER, WOOD, LEAVES, SAND, COAL, IRON}

\* padded 3D arrays voxel3D[x][y][z] of block types: all AIR or all STONE
\* except at one cell, or every cell holding a type that depends on its
\* three coordinates
VoxelArrays(chunkSize, height) ==
  LET xs == 0..(chunkSize + 1)
      ys == 0..(height - 1)
  IN {[x \in xs |-> [y \in ys |-> [z \in xs |->
         IF <<x, y, z>> = c THEN t ELSE rest]]] :
        c \in xs \X ys \X xs, t \in BlockTypes, rest \in {AIR, STONE}}
     \cup {[x \in xs |-> [y \in ys |-> [z \in xs |-> (x + 2 * y + 3 * z + o) % 10]]] :
             o \in BlockTypes}

\* serializeVoxelData, then deserializeVoxelData with the same chunk size
callSerializeDeserialize ==
  /\ called = NotCalled
  /\ \E chunkSize \in 1..MeshSize :
       \E voxel3D \in VoxelArrays(chunkSize, MeshHeight) :
         LET data == serializeVoxelData(voxel3D, chunkSize, MeshHeight) IN
         called' = [fn |-> "deserializeVoxelData", voxel3D |-> voxel3D,
                    chunkSize |-> chunkSize, height |-> MeshHeight, data |-> data,
                    out |-> deserializeVoxelData(data, chunkSize, MeshHeight)]
  /\ UNCHANGED <<cmVars, optVars, wkVars>>

\* greedyMeshing of chunk.worker.ts and greedyMeshing of the meshing module
\* applied to the same voxel buffer
callBothGreedyMeshers ==
  /\ called = NotCalled
  /\ \E data \in GreedyBuffers(MeshSize) :
       called' = [fn |-> "both greedy meshers", voxelData |-> data,
                  chunkSize |-> MeshSize,
                  worker |-> workerGreedyMeshing(data, MeshSize),
                  shared |-> greedyMeshing(data, MeshSize)]
  /\ UNCHANGED <<cmVars, optVars, wkVars>>

\* a 'generate' request answered from the array voxelData of step 2, then a
\* 'regenerate' request that sends the voxel buffer of the reply back as it is
callGenerateThenRegenerate ==
  /\ called = NotCalled
  /\ \E voxelData \in VoxelArrays(MeshSize, MeshHeight) :
       LET reply == serializeVoxelData(voxelData, MeshSize, MeshHeight) IN
       called' = [fn |-> "regenerate", chunkSize |-> MeshSize, height |-> MeshHeight,
                  voxel3D |-> voxelData,
                  generated |-> TerrainMeshArrays(voxelData, MeshSize, MeshHeight),
                  voxelData |-> reply,
                  regenerated |-> MeshArraysFor(reply, MeshSize, MeshHeight)]
  /\ UNCHANGED <<cmVars, optVars, wkVars>>

\* where the loops of serializeVoxelData and deserializeVoxelData reach cell
\* [x][y][z]: index counts the cells visited before it ("index++")
SerializedAt(chunkSize, height, x, y, z) ==
  Cardinality({c \in (0..(chunkSize + 1)) \X (0..(height - 1)) \X (0..(chunkSize + 1)) :
                 \/ c[1] < x
                 \/ c[1] = x /\ c[2] < y
                 \/ c[1] = x /\ c[2] = y /\ c[3] < z})

\* the worker scripts that answer OptimizedChunkManager's 'generate': the
\* one its createOptimizedWorker builds from a string, and the terrain worker
OptScripts == {"createOptimizedWorker", "optimized-terrain-worker.js"}

\* the length of the voxelData of a 'generate' reply
ReplyVoxelLength(script, chunkSize) ==
  IF script = "createOptimizedWorker"
  THEN chunkSize * WORLD_HEIGHT * chunkSize  \* new Uint8Array(chunkSize * 32 * chunkSize)
  ELSE Len(serializeVoxelData([x \in 0..(chunkSize + 1) |->
                                 [y \in 0..(WORLD_HEIGHT - 1) |->
                                    [z \in 0..(chunkSize + 1) |-> AIR]]],
                              chunkSize, WORLD_HEIGHT))

\* voxelIndex of placeBlock/removeBlock for a valid local coordinate of a
\* chunk whose buffer came from a 'generate' reply of the script
callVoxelIndex ==
  /\ called = NotCalled
  /\ \E localX \in 0..(CHUNK_SIZE - 1), localY \in 0..(WORLD_HEIGHT - 1),
        localZ \in 0..(CHUNK_SIZE - 1), script \in OptScripts :
       called' = [fn |-> "voxelIndex", localX |-> localX, localY |-> localY,
                  localZ |-> localZ, script |-> script,
                  out |-> VoxelIndex(localX, localY, localZ),
                  serializedAt |-> SerializedAt(CHUNK_SIZE, WORLD_HEIGHT,
                                                localX + 1, localY, localZ + 1),
                  length |-> ReplyVoxelLength(script, CHUNK_SIZE)]
  /\ UNCHANGED <<cmVars, optVars, wkVars>>

fnNext ==
  \/ callVoxelIndex
  \/ callGenerateThenRegenerate
  \/ callBothGreedyMeshers
  \/ callSerializeDeserialize
  \/ callBothMeshers
  \/ callGreedyMeshing
  \/ callAddQuad
  \/ callAddFace
  \/ callGenerateMeshFromVoxelData
  \/ callGenerateOptimizedTerrain

\* both coordinators are constructed, no worker script runs yet and no
\* function has been applied; each specification then runs one part
Init == cmInit /\ optInit /\ wkInit /\ fnInit

SpecMesh == Init /\ [][fnNext]_vars

SpecWorker == Init /\ [][wkNext]_vars

SpecOCM == Init /\ [][optNext]_vars

\* The coordinator's own timers always fire: the 10 ms retry of
\* getAvailableWorker is re-armed until a worker is free.  Nothing obliges a
\* worker to answer, so the reply and error handlers carry no fairness.
SpecOCMFair == Init /\ [][optNext]_vars /\ WF_vars(getAvailableWorker)


(***************************************************************************)
(* Claims about ChunkManager                                               *)
(***************************************************************************)
SpecCM == Init /\ [][cmNext]_vars

\* SpecCM with workers that answer the requests they hold and with timers
\* that fire: the 100 ms and 500 ms timers of initializeWorkers and the
\* 2000 ms restart timer
SpecCMFair ==
  /\ Init /\ [][cmNext]_vars
  /\ \A w \in WorkerIds : WF_vars(handleEnhancedChunkGenerated(w))
  /\ WF_vars(InitializeWorkers)
  /\ WF_vars(triggerInitialChunkLoad)
  /\ WF_vars(restartWorker)

\* the `generate` requests for key k that were posted and are not yet answered
Outstanding(k) ==
  Cardinality({<<w, i>> \in WorkerIds \X (1..MaxInbox) :
                 i <= Len(inbox[w]) /\ inbox[w][i].key = k})

\* C1: at no time are two `generate` requests for the same chunk key posted
\* to workers and not yet answered.
C1_SingleOutstandingRequest == \A k \in Keys : Outstanding(k) <= 1

\* C10: after every updateChunks(p) on a non-disposed manager, each key within
\* Chebyshev distance RENDER_DISTANCE of the viewer's chunk is resident and
\* Generated, or is in loadingChunks with a `generate` request in flight.
C10_InRangeRequestedOrGenerated ==
  (cmEvent.op = "updateChunks" /\ ~isDisposed) =>
    \A k \in SeqRange(LoopKeys(cmEvent.pcx, cmEvent.pcz, RENDER_DISTANCE)) :
      \/ Resident(k) /\ chunks[k].isGenerated
      \/ k \in loadingChunks /\ Outstanding(k) >= 1

\* C11: for every chunk key and every pool size the manager has, the worker
\* index of requestChunkGeneration is the index of an existing worker.
C11_WorkerIndexInRange ==
  (workers >= 1) =>
    \A k \in Keys : workerIndexFor(k, workers) \in 0..(workers - 1)

\* C12: at every moment of the manager's lifetime a request outstanding at
\* worker index w, for a key whose coordinate sum is not negative, is at the
\* index that requestChunkGeneration would choose for the key now and that
\* handleWorkerError attributes the key to.
C12_SameWorkerForKey ==
  (workers >= 1) =>
    \A w \in WorkerIds : \A i \in 1..Len(inbox[w]) :
      LET k == inbox[w][i].key IN
        (k[1] + k[2] >= 0) => workerIndexFor(k, workers) = w

\* C13: once a worker error has been handled, an updateChunks call leaves
\* every key in its range, whose worker index exists, either generated or in
\* flight again.
C13_ReleasedKeyRedispatched ==
  (cmEvent.op = "updateChunks" /\ errorCount >= 1 /\ ~isDisposed /\ workers >= 1) =>
    \A k \in SeqRange(LoopKeys(cmEvent.pcx, cmEvent.pcz, RENDER_DISTANCE)) :
      (workerIndexFor(k, workers) \in 0..(workers - 1)) =>
        \/ Resident(k) /\ chunks[k].isGenerated
        \/ k \in loadingChunks

\* C14: a step that handles a worker error, or runs the restart it scheduled,
\* leaves the chunk map with its flags and meshes, the scene and the mesh
\* pool as they were.
C14_ErrorHandlingFrame ==
  [][(errorCount' # errorCount \/ Len(restartTimers') < Len(restartTimers))
       => UNCHANGED <<chunks, chunkPool, scene>>]_vars

\* an error was handled and its restart ran while a chunk with an installed
\* mesh and a record still waiting for its reply were resident
C14_Witness ==
  /\ errorCount >= 1 /\ restartTimers = <<>> /\ ~isDisposed
  /\ \E k \in Keys : chunks[k].isGenerated /\ chunks[k].mesh \in scene
  /\ \E k \in Keys : Resident(k) /\ ~chunks[k].isGenerated

\* C15: an updateChunks call of a live manager removes a resident record
\* exactly when its Chebyshev distance from the viewer's chunk exceeds
\* RENDER_DISTANCE + 2: records within that distance stay as they were, the
\* records the call creates for its own range stay, and a removed record's
\* mesh is no longer in the scene.
C15_EvictionByDistance ==
  [][(cmEvent'.op = "updateChunks" /\ ~isDisposed) =>
       \A k \in Keys :
         LET dx == IF k[1] >= cmEvent'.pcx THEN k[1] - cmEvent'.pcx
                   ELSE cmEvent'.pcx - k[1]
             dz == IF k[2] >= cmEvent'.pcz THEN k[2] - cmEvent'.pcz
                   ELSE cmEvent'.pcz - k[2]
             far == dx > RENDER_DISTANCE + 2 \/ dz > RENDER_DISTANCE + 2
         IN
         /\ (Resident(k) /\ ~far) => chunks'[k] = chunks[k]
         /\ far => chunks'[k] = NoChunk
         /\ (dx <= RENDER_DISTANCE /\ dz <= RENDER_DISTANCE
               /\ k \notin loadingChunks) => chunks'[k] # NoChunk
         /\ (Resident(k) /\ far) =>
               /\ chunks[k].mesh \notin scene'
               /\ k \notin loadingChunks'
     ]_vars

\* after an updateChunks call a record outside the load range but within the
\* eviction distance is resident with its mesh in the scene, and an evicted
\* record's mesh is in the pool
C15_Witness ==
  /\ cmEvent.op = "updateChunks" /\ ~isDisposed
  /\ chunkPool # <<>>
  /\ \E k \in Keys :
       /\ Resident(k) /\ chunks[k].mesh \in scene
       /\ Distance(k, cmEvent.pcx, cmEvent.pcz) > RENDER_DISTANCE
       /\ Distance(k, cmEvent.pcx, cmEvent.pcz) <= RENDER_DISTANCE + 2

(***************************************************************************)
(* Claims about OptimizedChunkManager                                      *)
(***************************************************************************)
\* the chunk object the map holds for key k is Generated
Generated(k) == k \in OKeys /\ optChunks[k] # 0 /\ optObjs[optChunks[k]].isGenerated

\* the requests in worker w's queue
Posted(inbx, w) == {inbx[w][j] : j \in 1..Len(inbx[w])}

\* the requests a step has added to the workers' queues
NewlyPosted ==
  UNION {{optInbox'[w][j] : j \in (Len(optInbox[w]) + 1)..Len(optInbox'[w])} :
           w \in OWorkerIds}

\* C2: a Generated chunk record holds the reply to the request issued last for
\* its key; the reply to an earlier request for the key never replaces it.
C2_LaterIssuedWins ==
  \A k \in OKeys : Generated(k) => optHist[optChunks[k]].src = issued[k]

\* C3: when an edit has sent `regenerate` for its chunk, the chunk record's
\* resident voxel buffer equals the buffer that was sent, cell by cell.
C3_ResidentEqualsSent ==
  (optLog.start /\ optLog.selfSent) =>
    optObjs[optChunks[optLog.key]].voxels.data = optLog.sentData

\* C4: a placeBlock/removeBlock call that returns true has sent a `regenerate`
\* for the edited chunk whose buffer holds the edit.
C4_TrueEditIsRegenerated ==
  (optLog.status = "true") =>
    optLog.selfSent /\ Cell(optLog.sentData, optLog.idx) = optLog.bt

\* C5: no voxel buffer is held by a chunk record while it travels in a
\* `regenerate` message, and no buffer is held twice.
C5_SingleOwner ==
  LET held == {o \in ObjIds : optObjs[o].live}
      sent == {m \in UNION {Posted(optInbox, w) : w \in OWorkerIds} :
                 m.type = "regenerate"}
  IN /\ \A o \in held : \A m \in sent : optObjs[o].voxels.id # m.voxelData.id
     /\ \A o1, o2 \in held :
          o1 # o2 => optObjs[o1].voxels.id # optObjs[o2].voxels.id
     /\ \A w1, w2 \in OWorkerIds :
          \A j1 \in 1..Len(optInbox[w1]) : \A j2 \in 1..Len(optInbox[w2]) :
            (<<w1, j1>> # <<w2, j2>>
             /\ optInbox[w1][j1].type = "regenerate"
             /\ optInbox[w2][j2].type = "regenerate")
            => optInbox[w1][j1].voxelData.id # optInbox[w2][j2].voxelData.id

\* a `regenerate` with the chunk's former buffer is in a worker's queue while
\* the chunk record is resident and holds a buffer of its own
C5_Witness ==
  \E k \in OKeys : \E w \in OWorkerIds : \E m \in Posted(optInbox, w) :
    /\ Generated(k)
    /\ m.type = "regenerate" /\ m.key = k
    /\ Len(m.voxelData.data) = BufferLength

\* C6: a successful edit on a boundary of its chunk has sent `regenerate` for
\* the edited chunk and for each Generated neighbour sharing that boundary,
\* and for no other chunk.
C6_BoundaryNeighbours ==
  LET c == optLog
      nbrs == (IF c.lx = 0 THEN {<<c.key[1] - 1, c.key[2]>>} ELSE {})
              \cup (IF c.lx = CHUNK_SIZE - 1 THEN {<<c.key[1] + 1, c.key[2]>>} ELSE {})
              \cup (IF c.lz = 0 THEN {<<c.key[1], c.key[2] - 1>>} ELSE {})
              \cup (IF c.lz = CHUNK_SIZE - 1 THEN {<<c.key[1], c.key[2] + 1>>} ELSE {})
  IN (c.status = "true" /\ nbrs \cap c.gnbrs # {}) =>
       c.sent = {c.key} \cup (nbrs \cap c.gnbrs)

\* C7: an edit whose chunk is absent or not Generated returns false and
\* changes no chunk record, buffer, mesh, worker queue or waiting call.
C7_NotGeneratedEditFails ==
  [][(optLog'.start /\ ~Generated(optLog'.key)) =>
       /\ optLog'.status = "false"
       /\ UNCHANGED <<optChunks, optObjs, optInbox, waiters, availableWorkers,
                      issued>>]_vars

\* an edit has just been refused on a resident chunk that is not Generated
C7_Witness ==
  /\ optLog.start /\ optLog.status = "false"
  /\ optChunks[optLog.key] # 0
  /\ ~optObjs[optChunks[optLog.key]].isGenerated
  /\ ~optDisposed

\* C8: removeBlock on a Generated chunk at a cell that is AIR returns false.
C8_RemoveAirFails ==
  (optLog.start /\ optLog.op = "remove" /\ optLog.wasAir) => optLog.status = "false"

C16_SilentWorkerTimesOut ==
  \A w \in OWorkerIds : (optInbox[w] # <<>>) ~> (optInbox[w] = <<>>)

\* a request of the given type for key k is in a worker's queue
InQueue(type, k) ==
  \E w \in OWorkerIds : \E m \in Posted(optInbox, w) : m.type = type /\ m.key = k

\* C17: a resident record is in Requested (not yet generated) or in
\* Regenerating (needsRemesh set) only while the request that ends that state
\* is still on its way, waiting for a worker or in a worker's queue; a request
\* that ended in an error reply leaves no record behind in either state.
C17_PendingStateHasRequest ==
  \A k \in OKeys :
    LET o == optChunks[k] IN
    (o # 0) =>
      /\ ~optObjs[o].isGenerated =>
            \/ InQueue("generate", k)
            \/ \E j \in 1..Len(waiters) : waiters[j].kind = "gen" /\ waiters[j].key = k
      /\ optObjs[o].needsRemesh =>
            \/ InQueue("regenerate", k)
            \/ \E j \in 1..Len(waiters) : waiters[j].kind = "regen" /\ waiters[j].obj = o

(***************************************************************************)
(* Claims about the terrain workers                                        *)
(***************************************************************************)
\* the messages the handler of request number i has posted
RepliesTo(i) == SelectSeq(wkPosted, LAMBDA r : r.req = i)

\* C18: the terrain worker (optimized-terrain-worker.js, chunk.worker.ts)
\* answers each generate with exactly one message, chunkGenerated with the
\* request's chunkX and chunkZ, a mesh and the voxel buffer, or error; each
\* regenerate with exactly one message, chunkRegenerated with the request's
\* chunkX and chunkZ and a mesh but no voxel buffer, or error; and the
\* replies are in the order of the requests.
C18_OneReplyPerRequest ==
  (wkScript \in {"optimized-terrain-worker.js", "chunk.worker.ts"}) =>
    /\ \A i \in 1..Len(wkReceived) :
         LET q == wkReceived[i]
             rs == RepliesTo(i)
         IN /\ (q.type = "generate") =>
                 /\ Len(rs) = 1
                 /\ \/ rs[1].type = "error"
                    \/ /\ rs[1].type = "chunkGenerated"
                       /\ rs[1].chunkX = q.chunkX /\ rs[1].chunkZ = q.chunkZ
                       /\ {"chunkX", "chunkZ", "meshData", "voxelData"} \subseteq rs[1].has
            /\ (q.type = "regenerate") =>
                 /\ Len(rs) = 1
                 /\ \/ rs[1].type = "error"
                    \/ /\ rs[1].type = "chunkRegenerated"
                       /\ rs[1].chunkX = q.chunkX /\ rs[1].chunkZ = q.chunkZ
                       /\ {"chunkX", "chunkZ", "meshData"} \subseteq rs[1].has
                       /\ "voxelData" \notin rs[1].has
    /\ \A a, b \in 1..Len(wkPosted) : a < b => wkPosted[a].req <= wkPosted[b].req

\* C19: two chunkGenerated replies of a worker for the same chunkX and chunkZ
\* (the chunk size and the seed being the same) carry identical voxel buffers
\* and identical meshes.
C19_GenerationDeterministic ==
  \A a, b \in 1..Len(wkPosted) :
    (/\ wkPosted[a].type = "chunkGenerated" /\ wkPosted[b].type = "chunkGenerated"
     /\ wkPosted[a].chunkX = wkPosted[b].chunkX
     /\ wkPosted[a].chunkZ = wkPosted[b].chunkZ
     /\ wkPosted[a].seed = wkPosted[b].seed)
    => /\ wkPosted[a].voxelData = wkPosted[b].voxelData
       /\ wkPosted[a].meshData = wkPosted[b].meshData

\* C20: every mesh a worker returns has as many normal components as position
\* components (and as many colour components, when it has colours), a number
\* of indices divisible by 3, and only indices of existing vertices.
C20_MeshArraysConsistent ==
  \A a \in 1..Len(wkPosted) :
    ("meshData" \in wkPosted[a].has) =>
      LET m == wkPosted[a].meshData IN
      /\ Len(m.positions) = Len(m.normals)
      /\ ("colors" \in DOMAIN m) => Len(m.colors) = Len(m.positions)
      /\ Len(m.indices) % 3 = 0
      /\ \A i \in 1..Len(m.indices) : 3 * m.indices[i] < Len(m.positions)

(***************************************************************************)
(* Claims about the meshing functions                                      *)
(***************************************************************************)
Cross(a, b) == <<a[2] * b[3] - a[3] * b[2],
                 a[3] * b[1] - a[1] * b[3],
                 a[1] * b[2] - a[2] * b[1]>>

Dot(a, b) == a[1] * b[1] + a[2] * b[2] + a[3] * b[3]

Minus(a, b) == <<a[1] - b[1], a[2] - b[2], a[3] - b[3]>>

\* vertex number i (from 0) of a mesh, and the normal stored on it
VertexOf(m, i) == <<m.positions[3 * i + 1], m.positions[3 * i + 2],
                    m.positions[3 * i + 3]>>

NormalOf(m, i) == <<m.normals[3 * i + 1], m.normals[3 * i + 2],
                    m.normals[3 * i + 3]>>

\* the cross product (v1 - v0) x (v2 - v0) of triangle number t (from 0) of
\* the index array
TriangleCross(m, t) ==
  LET v0 == VertexOf(m, m.indices[3 * t + 1])
      v1 == VertexOf(m, m.indices[3 * t + 2])
      v2 == VertexOf(m, m.indices[3 * t + 3])
  IN Cross(Minus(v1, v0), Minus(v2, v0))

\* vector a is a positive multiple of vector b
SameDirection(a, b) == Cross(a, b) = <<0, 0, 0>> /\ Dot(a, b) > 0

\* C21: for each of the six face emitters and every voxel position, the
\* cross products of the two triangles of the emitted quad, (0,1,2) and
\* (0,2,3), point in the same direction as the normal stored on the quad's
\* four vertices.
C21_WindingFollowsNormal ==
  (called.fn = "addFace") =>
    LET m == called.out
        t == (Len(m.indices) \div 3) - 2
    IN /\ m.indices[3 * t + 1] = called.vertexIndex
       /\ \A i \in 0..3 :
            /\ SameDirection(TriangleCross(m, t), NormalOf(m, called.vertexIndex + i))
            /\ SameDirection(TriangleCross(m, t + 1), NormalOf(m, called.vertexIndex + i))

\* the offset of the neighbour in direction d
DirOffset(d) ==
  CASE d = "top"    -> <<0, 1, 0>>
    [] d = "bottom" -> <<0, -1, 0>>
    [] d = "front"  -> <<0, 0, -1>>
    [] d = "back"   -> <<0, 0, 1>>
    [] d = "right"  -> <<1, 0, 0>>
    [] d = "left"   -> <<-1, 0, 0>>

\* the pairs (solid voxel of the chunk, direction) of a serialized buffer
\* whose neighbour is AIR or lies outside the height range, by direct
\* inspection; a cell read outside the buffer is undefined, which is not AIR
ExposedPairs(data, chunkSize, height) ==
  {f \in (1..chunkSize) \X (0..(height - 1)) \X (1..chunkSize) \X Dirs :
     LET o == DirOffset(f[4]) IN
     /\ Cell(data, PaddedIndex(chunkSize, height, f[1], f[2], f[3])) # AIR
     /\ \/ f[2] + o[2] < 0
        \/ f[2] + o[2] >= height
        \/ Cell(data, PaddedIndex(chunkSize, height,
                                  f[1] + o[1], f[2] + o[2], f[3] + o[3])) = AIR}

\* the four corners of the face in direction d of the unit cube at (x, y, z)
FaceCorners(x, y, z, d) ==
  LET o == DirOffset(d) IN
  {<<x + c[1], y + c[2], z + c[3]>> : c \in
     {c \in {0, 1} \X {0, 1} \X {0, 1} :
        \A a \in 1..3 : (o[a] = 1 => c[a] = 1) /\ (o[a] = -1 => c[a] = 0)}}

\* the corners of quad number q (from 0) of a mesh of quads
QuadCorners(m, q) == {VertexOf(m, 4 * q + i) : i \in 0..3}

\* C22: the face-culling mesher emits exactly one quad (4 vertices,
\* 6 indices, 2 triangles) for each pair (solid voxel, direction) whose
\* neighbour in that direction is AIR or lies outside the height range, and
\* no other geometry; a single isolated solid voxel yields 6 quads, 24
\* vertices and 36 indices.
C22_OneQuadPerExposedFace ==
  (called.fn = "generateMeshFromVoxelData") =>
    LET m == called.out
        exposed == ExposedPairs(called.voxelData, called.chunkSize, called.height)
        quads == Len(m.positions) \div 12
    IN /\ Len(m.positions) = 12 * Cardinality(exposed)
       /\ Len(m.indices) = 6 * Cardinality(exposed)
       /\ Len(m.indices) \div 3 = 2 * Cardinality(exposed)
       /\ \A f \in exposed :
            Cardinality({q \in 0..(quads - 1) :
                           /\ QuadCorners(m, q) = FaceCorners(f[1] - 1, f[2], f[3] - 1, f[4])
                           /\ \A i \in 0..3 : NormalOf(m, 4 * q + i) = DirOffset(f[4])
                           /\ {m.indices[6 * q + j] : j \in 1..6} = (4 * q)..(4 * q + 3)})
              = 1

\* a single solid voxel with AIR on all six sides has been meshed
C22_Witness ==
  /\ called.fn = "generateMeshFromVoxelData"
  /\ Len(called.voxelData) > 0
  /\ Cardinality({n \in 1..Len(called.voxelData) : called.voxelData[n] # AIR}) = 1
  /\ Cell(called.voxelData, PaddedIndex(called.chunkSize, called.height, 1, 0, 1)) = STONE
  /\ Len(called.out.positions) = 3 * 24
  /\ Len(called.out.indices) = 36

\* the quads of a mesh of quads that carry normal nrm on their first vertex
QuadsFacing(m, nrm) ==
  {q \in 0..((Len(m.positions) \div 12) - 1) : NormalOf(m, 4 * q) = nrm}

\* the cells of the chunk's column (1, 1) that are not AIR
FilledHeight(data, chunkSize, height) ==
  Cardinality({y \in 0..(height - 1) :
                 Cell(data, PaddedIndex(chunkSize, height, 1, y, 1)) # AIR})

Triple(v) == <<v[0], v[1], v[2]>>

Negated(a) == <<-a[1], -a[2], -a[3]>>

\* C26: addQuad stores the same normal on all four vertices of the quad it
\* appends: the cross product du x dv when isPositive is true and its
\* negation when isPositive is false, so du = (0,0,1), dv = (1,0,0) gives
\* (0,1,0) and du = (1,0,0), dv = (0,1,0) gives (0,0,1).
C26_AddQuadNormal ==
  (called.fn = "addQuad") =>
    LET m == called.out
        first == (Len(m.positions) \div 3) - 4
        cross == Cross(Triple(called.du), Triple(called.dv))
    IN /\ Len(m.normals) = Len(m.positions)
       /\ \A i \in 0..3 :
            NormalOf(m, first + i) = IF called.isPositive THEN cross ELSE Negated(cross)
       /\ (called.isPositive /\ Triple(called.du) = <<0, 0, 1>>
             /\ Triple(called.dv) = <<1, 0, 0>>)
            => \A i \in 0..3 : NormalOf(m, first + i) = <<0, 1, 0>>
       /\ (called.isPositive /\ Triple(called.du) = <<1, 0, 0>>
             /\ Triple(called.dv) = <<0, 1, 0>>)
            => \A i \in 0..3 : NormalOf(m, first + i) = <<0, 0, 1>>

\* addQuad has appended the quad of the XZ plane of the test, on arrays that
\* held a quad already
C26_Witness ==
  /\ called.fn = "addQuad"
  /\ called.isPositive
  /\ Triple(called.du) = <<0, 0, 1>> /\ Triple(called.dv) = <<1, 0, 0>>
  /\ Len(called.out.positions) = 24
  /\ NormalOf(called.out, 7) = <<0, 1, 0>>

\* the buffer of edge `size` is a full slab of block t at height y, one voxel
\* tall, with AIR everywhere else
IsSlab(data, size, y, t) ==
  /\ t # AIR
  /\ \A n \in 1..Len(data) :
       data[n] = IF ((n - 1) \div size) % size = y THEN t ELSE AIR

\* the corners of the rectangle [x0, x1] x [z0, z1] at height y, and of the
\* wall of height 1 over the segment from (x0, z0) to (x1, z1) at height y
FlatCorners(x0, x1, y, z0, z1) ==
  {<<x0, y, z0>>, <<x1, y, z0>>, <<x0, y, z1>>, <<x1, y, z1>>}

WallCorners(x0, z0, x1, z1, y) ==
  {<<x0, y, z0>>, <<x1, y, z1>>, <<x0, y + 1, z0>>, <<x1, y + 1, z1>>}

\* C24 as stated: greedyMeshing applied to an S x S x S buffer that holds a
\* flat full S x S slab of one block type, one voxel tall, with AIR
\* everywhere else, returns exactly 2 quads (8 vertices, 12 indices): one top
\* and one bottom quad, each covering the full S x S area.
C24_SlabTwoQuads ==
  \A y \in 0..(MeshSize - 1), t \in CellValues :
    (/\ called.fn = "greedyMeshing"
     /\ IsSlab(called.voxelData, called.chunkSize, y, t))
    => LET m == called.out
           S == called.chunkSize
       IN /\ Len(m.positions) = 3 * 8
          /\ Len(m.indices) = 12
          /\ \E top, bottom \in 0..1 :
               /\ top # bottom
               /\ QuadCorners(m, top) = FlatCorners(0, S, y + 1, 0, S)
               /\ NormalOf(m, 4 * top)[2] > 0
               /\ QuadCorners(m, bottom) = FlatCorners(0, S, y, 0, S)
               /\ NormalOf(m, 4 * bottom)[2] < 0

\* C24 as amended: for such a slab greedyMeshing returns exactly 6 quads (24
\* vertices, 36 indices): one top and one bottom quad, each covering the full
\* S x S area, and one quad S wide and 1 tall on each of the four sides.
C24_SlabSixQuads ==
  \A y \in 0..(MeshSize - 1), t \in CellValues :
    (/\ called.fn = "greedyMeshing"
     /\ IsSlab(called.voxelData, called.chunkSize, y, t))
    => LET m == called.out
           S == called.chunkSize
           quadsAt(corners) == {q \in 0..5 : QuadCorners(m, q) = corners}
       IN /\ Len(m.positions) = 3 * 24
          /\ Len(m.indices) = 36
          /\ \E top \in quadsAt(FlatCorners(0, S, y + 1, 0, S)) :
               NormalOf(m, 4 * top)[2] > 0
          /\ \E bottom \in quadsAt(FlatCorners(0, S, y, 0, S)) :
               NormalOf(m, 4 * bottom)[2] < 0
          /\ Cardinality(quadsAt(FlatCorners(0, S, y + 1, 0, S))) = 1
          /\ Cardinality(quadsAt(FlatCorners(0, S, y, 0, S))) = 1
          /\ Cardinality(quadsAt(WallCorners(0, 0, S, 0, y))) = 1
          /\ Cardinality(quadsAt(WallCorners(0, S, S, S, y))) = 1
          /\ Cardinality(quadsAt(WallCorners(0, 0, 0, S, y))) = 1
          /\ Cardinality(quadsAt(WallCorners(S, 0, S, S, y))) = 1

\* a slab that lies above the floor of the buffer has been meshed
C24_Witness ==
  /\ called.fn = "greedyMeshing"
  /\ called.chunkSize >= 2
  /\ IsSlab(called.voxelData, called.chunkSize, 1, GRASS)
  /\ Len(called.out.indices) = 36

\* the sweep axis of a quad of the greedy mesher: the axis neither edge runs
\* along
SweepAxis(quad) == CHOOSE d \in 0..2 : quad.du[d] = 0 /\ quad.dv[d] = 0

\* C25: every quad emitted by greedyMeshing on sweep axis d carries on all
\* four vertices a unit-length normal, equal to +e_d when the mask value is
\* positive and -e_d when it is negative, for every merged width and height;
\* and the index winding of both triangles is consistent with that normal.
C25_UnitNormalAlongSweepAxis ==
  (called.fn = "greedyMeshing") =>
    \A q \in 1..Len(called.quads) :
      LET m == called.out
          quad == called.quads[q]
          d == SweepAxis(quad)
          unit == [a \in 1..3 |-> IF a = d + 1
                                  THEN (IF quad.isPositive THEN 1 ELSE -1) ELSE 0]
      IN /\ \A i \in 0..3 : NormalOf(m, 4 * (q - 1) + i) = unit
         /\ SameDirection(TriangleCross(m, 2 * (q - 1)), unit)
         /\ SameDirection(TriangleCross(m, 2 * (q - 1) + 1), unit)

\* the area of quad number q (from 0) of a mesh of axis-aligned quads
QuadArea(m, q) ==
  LET c == Cross(Minus(VertexOf(m, 4 * q + 1), VertexOf(m, 4 * q)),
                 Minus(VertexOf(m, 4 * q + 2), VertexOf(m, 4 * q)))
  IN Abs(c[1]) + Abs(c[2]) + Abs(c[3])

\* the area of the quads of a mesh whose normal points in direction d
AreaFacing(m, d) ==
  LET facing == {q \in 0..((Len(m.positions) \div 12) - 1) :
                   SameDirection(NormalOf(m, 4 * q), DirOffset(d))}
  IN SumOver([q \in facing |-> QuadArea(m, q)], facing)

\* the coordinates along axis a (from 1) of the vertices of a mesh
Coordinates(m, a) == {m.positions[3 * i + a] : i \in 0..((Len(m.positions) \div 3) - 1)}

\* C27: the face-culling mesher and greedyMeshing, applied to the same voxels
\* with cells outside the buffer read as AIR, cover the same area in each of
\* the six face directions and produce the same bounding box.
C27_SameSurface ==
  (called.fn = "both meshers") =>
    /\ \A d \in Dirs : AreaFacing(called.culled, d) = AreaFacing(called.greedy, d)
    /\ \A a \in 1..3 :
         /\ (Coordinates(called.culled, a) = {}) = (Coordinates(called.greedy, a) = {})
         /\ \A lo \in Coordinates(called.culled, a) :
              (\A c \in Coordinates(called.culled, a) : lo <= c)
                => /\ lo \in Coordinates(called.greedy, a)
                   /\ \A c \in Coordinates(called.greedy, a) : lo <= c
         /\ \A hi \in Coordinates(called.culled, a) :
              (\A c \in Coordinates(called.culled, a) : hi >= c)
                => /\ hi \in Coordinates(called.greedy, a)
                   /\ \A c \in Coordinates(called.greedy, a) : hi >= c

\* C28: deserializeVoxelData(serializeVoxelData(v, S), S) holds the block
\* value of v at every coordinate of the padded volume, for every chunk size
\* S and every assignment of block types.
C28_SerializeRoundTrip ==
  (called.fn = "deserializeVoxelData") =>
    /\ Len(called.data) = (called.chunkSize + 2) * called.height * (called.chunkSize + 2)
    /\ \A x \in 0..(called.chunkSize + 1), y \in 0..(called.height - 1),
          z \in 0..(called.chunkSize + 1) :
         called.out[x][y][z] = called.voxel3D[x][y][z]

\* an array whose cells differ along all three axes has made the round trip
C28_Witness ==
  /\ called.fn = "deserializeVoxelData"
  /\ called.chunkSize >= 2
  /\ called.voxel3D[0][1][0] # called.voxel3D[1][0][0]
  /\ called.voxel3D[0][0][1] # called.voxel3D[1][0][0]
  /\ called.voxel3D[0][0][1] # called.voxel3D[0][1][0]
  /\ called.out[2][1][3] = called.voxel3D[2][1][3]


\* ---------------------------------------------------------------------------
\* Claims about the mesh pool and dispose() of ChunkManager
\* ---------------------------------------------------------------------------

\* chunk k has no record, or a record without a mesh
HasNoMesh(ch, k) == ch[k] = NoChunk \/ ch[k].mesh = NoMesh

\* no mesh is in the pool twice, and no pooled mesh is attached to a resident
\* chunk or is a child of the scene
PoolApart ==
  /\ \A i, j \in 1..Len(chunkPool) : i # j => chunkPool[i] # chunkPool[j]
  /\ \A i \in 1..Len(chunkPool) :
       /\ chunkPool[i] \notin scene
       /\ \A k \in Keys : Resident(k) => chunks[k].mesh # chunkPool[i]

\* a step that gives a mesh to a chunk that had none, while the pool is
\* non-empty, takes that mesh from the pool, which shrinks by one
InstallTakesFromPool ==
  \A k \in Keys :
    (/\ HasNoMesh(chunks, k)
     /\ ~HasNoMesh(chunks', k)
     /\ Len(chunkPool) > 0)
    => /\ Len(chunkPool') = Len(chunkPool) - 1
       /\ chunks'[k].mesh \in SeqRange(chunkPool)
       /\ chunks'[k].mesh \notin SeqRange(chunkPool')

\* C29: when the mesh pool is non-empty, installing a chunkGenerated reply for
\* a chunk without a mesh takes the mesh from the pool, whose size decreases by
\* one, instead of allocating one; and no mesh is at the same time in the pool
\* and attached to a resident chunk or the scene, nor in the pool twice.
C29_InstallReusesPooledMesh == [][InstallTakesFromPool]_vars /\ []PoolApart

\* a reply for a chunk without a mesh is about to be installed while the pool
\* holds a mesh
C29_Witness ==
  /\ ~isDisposed
  /\ Len(chunkPool) > 0
  /\ \E w \in WorkerIds :
       /\ inbox[w] # <<>>
       /\ HasNoMesh(chunks, Head(inbox[w]).key)


\* once disposed, the chunk map, the in-flight set, the mesh pool and the
\* worker list are empty
DisposedEmpty ==
  isDisposed =>
    /\ \A k \in Keys : ~Resident(k)
    /\ loadingChunks = {}
    /\ chunkPool = <<>>
    /\ workers = 0

\* an event of a disposed manager leaves it disposed and attaches no chunk
\* mesh and no block mesh to the scene; a dispose() of a disposed manager
\* changes nothing
DisposedStep ==
  isDisposed =>
    /\ isDisposed'
    /\ scene' \subseteq scene
    /\ blocks' \subseteq blocks
    /\ dispose => UNCHANGED <<chunks, chunkPool, scene, blocks, workers, inbox,
                              loadingChunks, initPc, restartTimers, errorCount>>

\* C30: after dispose() the chunk map, the in-flight set, the mesh pool and
\* the worker list are empty, and every later event (worker message, worker
\* error, restart timer, worker-initialisation step, updateChunks, placeBlock,
\* removeBlock) leaves them empty, creates no worker and attaches nothing to
\* the scene; a second dispose() is a no-op.
C30_DisposedStaysEmpty == []DisposedEmpty /\ [][DisposedStep]_vars

\* updateChunks was the last event of a disposed manager that has a placed
\* block in the scene, a restart timer pending and a late reply to come
C30_Witness ==
  /\ isDisposed
  /\ cmEvent.op = "updateChunks"
  /\ blocks # {}
  /\ restartTimers # <<>>
  /\ \E w \in WorkerIds : inbox[w] # <<>>
  /\ \A k \in Keys : ~Resident(k)


\* ---------------------------------------------------------------------------
\* Claims about the rectangles of the greedy mesher
\* ---------------------------------------------------------------------------

\* the quads (by number) emitted for the mask of sweep axis d at x[d] = plane
PlaneQuads(quads, d, plane) ==
  {q \in 1..Len(quads) : SweepAxis(quads[q]) = d /\ quads[q].x[d] = plane + 1}

\* the mask cells the rectangle of a quad of sweep axis d covers
QuadCells(quad, size, d) ==
  LET u == (d + 1) % 3
      v == (d + 2) % 3
  IN {n \in 0..(size * size - 1) :
        /\ n % size >= quad.x[u] /\ n % size < quad.x[u] + quad.du[u]
        /\ n \div size >= quad.x[v] /\ n \div size < quad.x[v] + quad.dv[v]}

\* the rectangles of the plane are pairwise disjoint, cover the non-zero cells
\* of the mask and nothing else, hold one mask value each, and their areas
\* w * h add up to the number of non-zero cells
PlaneTiled(data, size, quads, d, plane) ==
  LET mask == MaskOf(data, size, d, plane)
      qs == PlaneQuads(quads, d, plane)
      u == (d + 1) % 3
      v == (d + 2) % 3
      nonZero == {n \in DOMAIN mask : mask[n] # 0}
  IN /\ \A a, b \in qs :
          a # b => QuadCells(quads[a], size, d) \cap QuadCells(quads[b], size, d) = {}
     /\ UNION {QuadCells(quads[a], size, d) : a \in qs} = nonZero
     /\ \A a \in qs :
          /\ quads[a].du[u] >= 1 /\ quads[a].dv[v] >= 1
          /\ quads[a].x[u] + quads[a].du[u] <= size
          /\ quads[a].x[v] + quads[a].dv[v] <= size
          /\ \A n, m \in QuadCells(quads[a], size, d) : mask[n] = mask[m]
          /\ \A n \in QuadCells(quads[a], size, d) : quads[a].isPositive = (mask[n] > 0)
     /\ SumOver([a \in qs |-> quads[a].du[u] * quads[a].dv[v]], qs)
          = Cardinality(nonZero)

\* C31: for every sweep axis and plane position the rectangles greedyMeshing
\* emits are pairwise disjoint, together cover exactly the non-zero cells of
\* that plane's mask, and each covers only cells holding one and the same
\* signed mask value, so the summed quad area is the number of non-zero cells.
C31_RectanglesTileMask ==
  (called.fn = "greedyMeshing") =>
    \A d \in 0..2, plane \in (-1)..(called.chunkSize - 1) :
      PlaneTiled(called.voxelData, called.chunkSize, called.quads, d, plane)

\* a plane whose mask has three non-zero cells of one value, tiled by a
\* rectangle of two cells and one of one cell, and a plane with two values
C31_Witness ==
  /\ called.fn = "greedyMeshing"
  /\ \E d \in 0..2, plane \in (-1)..(called.chunkSize - 1) :
       LET mask == MaskOf(called.voxelData, called.chunkSize, d, plane)
           qs == PlaneQuads(called.quads, d, plane)
       IN /\ Cardinality({n \in DOMAIN mask : mask[n] # 0}) = 3
          /\ Cardinality(qs) = 2
  /\ \E d \in 0..2, plane \in (-1)..(called.chunkSize - 1) :
       LET mask == MaskOf(called.voxelData, called.chunkSize, d, plane)
       IN \E n, m \in DOMAIN mask : mask[n] # 0 /\ mask[m] # 0 /\ mask[n] # mask[m]


\* ---------------------------------------------------------------------------
\* Claims about the two copies of the greedy mesher
\* ---------------------------------------------------------------------------

\* C39: the greedy mesher inlined in chunk.worker.ts returns, for every voxel
\* buffer and chunk size, the same positions, normals, uvs and indices as
\* greedyMeshing of the meshing module.
C39_WorkerCopySameMesh ==
  (called.fn = "both greedy meshers") => called.worker = called.shared


\* ---------------------------------------------------------------------------
\* Claims about re-meshing in the face-culling worker
\* ---------------------------------------------------------------------------

\* C38: sending the voxel buffer returned by a generate reply back unmodified
\* in a regenerate request yields a mesh identical in positions, normals,
\* uvs, colors and indices to the mesh of that generate reply.
C38_RegenerateSameMesh ==
  (called.fn = "regenerate") => called.regenerated = called.generated

\* a re-meshed chunk with emitted faces whose padding holds a block other
\* than AIR and whose cells differ along x and z
C38_Witness ==
  /\ called.fn = "regenerate"
  /\ Len(called.regenerated.indices) > 0
  /\ called.voxel3D[0][0][1] # AIR
  /\ called.voxel3D[1][0][2] # called.voxel3D[2][0][1]


\* ---------------------------------------------------------------------------
\* Claims about the voxel index of the edits
\* ---------------------------------------------------------------------------

\* C37: for every local coordinate 0 <= x, z < CHUNK_SIZE and
\* 0 <= y < WORLD_HEIGHT, the flat index that placeBlock/removeBlock read and
\* write is the index at which serializeVoxelData/deserializeVoxelData place
\* cell [x+1][y][z+1] of the padded volume, and it is smaller than the length
\* of the voxel buffer the chunk received from its generate reply.
C37_VoxelIndexInReplyBuffer ==
  (called.fn = "voxelIndex") =>
    /\ called.out = called.serializedAt
    /\ called.out < called.length


\* ---------------------------------------------------------------------------
\* Claims about the neighbours of an edited boundary cell
\* ---------------------------------------------------------------------------

\* the index, in the buffer of neighbour nbr of the chunk of edit c, of the
\* padding cell that mirrors the edited cell
MirrorIndex(c, nbr) ==
  CASE nbr = <<c.key[1] - 1, c.key[2]>> -> c.idx + CHUNK_SIZE * WORLD_HEIGHT * Pad
    [] nbr = <<c.key[1] + 1, c.key[2]>> -> c.idx - CHUNK_SIZE * WORLD_HEIGHT * Pad
    [] nbr = <<c.key[1], c.key[2] - 1>> -> c.idx + CHUNK_SIZE
    [] nbr = <<c.key[1], c.key[2] + 1>> -> c.idx - CHUNK_SIZE

\* C33: when an edit of a boundary cell makes OptimizedChunkManager send
\* `regenerate` for the adjacent chunk, the buffer sent for that neighbour
\* holds the edited cell's new block value in the padding cell that mirrors
\* the edited cell.
C33_NeighbourBufferHoldsEdit ==
  LET c == optLog IN
  \A w \in OWorkerIds : \A j \in 1..Len(optInbox[w]) :
    LET m == optInbox[w][j] IN
    (/\ c.status = "true"
     /\ m.type = "regenerate"
     /\ m.key # c.key
     /\ m.key \in c.sent)
    => Cell(m.voxelData.data, MirrorIndex(c, m.key)) = c.bt


\* ---------------------------------------------------------------------------
\* Claims about the worker pool of OptimizedChunkManager
\* ---------------------------------------------------------------------------

\* C34: under any interleaving of dispatches, worker replies, worker `error`
\* messages and worker onerror events, a worker never appears twice in
\* availableWorkers and is never in availableWorkers while it has an
\* unanswered request; hence at most one request is outstanding per worker.
C34_WorkerPoolSound ==
  /\ \A i, j \in 1..Len(availableWorkers) :
       i # j => availableWorkers[i] # availableWorkers[j]
  /\ \A i \in 1..Len(availableWorkers) : optInbox[availableWorkers[i]] = <<>>
  /\ \A w \in OWorkerIds : Len(optInbox[w]) <= 1


\* C36: every call of getAvailableWorker eventually settles, so every pending
\* placeBlock, removeBlock and generateChunk call eventually returns, also
\* when the pool has no worker or dispose() is called while the call waits:
\* the calls waiting for a worker do not wait for ever.
C36_GetAvailableWorkerSettles == (waiters # <<>>) ~> (waiters = <<>>)


\* ---------------------------------------------------------------------------
\* Claims about the chunk meshes of ChunkManager
\* ---------------------------------------------------------------------------

\* C35: after any sequence of updateChunks, worker replies, placeBlock and
\* removeBlock calls, every resident chunk with isGenerated = true has a mesh
\* that is attached to the scene; removeBlock never detaches a chunk's mesh.
C35_GeneratedChunkMeshInScene ==
  \A k \in Keys :
    (Resident(k) /\ chunks[k].isGenerated) =>
      /\ chunks[k].mesh # NoMesh
      /\ chunks[k].mesh \in scene


\* key k is within render distance of the viewer's chunk (pcx, pcz)
WithinRenderDistance(k, pcx, pcz) ==
  Max(Abs(k[1] - pcx), Abs(k[2] - pcz)) <= RENDER_DISTANCE

\* C32: when every worker that is not terminated eventually answers each
\* request it received, every chunk key that stays within render distance of
\* the viewer is eventually Generated with its mesh installed, under all
\* interleavings of worker errors and restarts, and no key stays in
\* loadingChunks for ever.
C32_InRangeEventuallyGenerated ==
  /\ \A k \in Keys :
       (/\ cmEvent.op = "updateChunks"
        /\ ~isDisposed
        /\ WithinRenderDistance(k, cmEvent.pcx, cmEvent.pcz))
       ~> (\/ isDisposed
           \/ /\ cmEvent.op = "updateChunks"
              /\ ~WithinRenderDistance(k, cmEvent.pcx, cmEvent.pcz)
           \/ /\ Resident(k)
              /\ chunks[k].isGenerated
              /\ chunks[k].mesh \in scene)
  /\ \A k \in Keys : (k \in loadingChunks) ~> (k \notin loadingChunks)

====
